---- MODULE Spec2Model ----
(***************************************************************************)
(* Model of the aerodynamic chain of turbofan_vpf: compressibility         *)
(* correction, optimum finding, metric evaluation, the FPF/VPF phase       *)
(* comparison, the multi-phase script, the polar store of aero/polars.py  *)
(* (CSV loading and the module-level current-polar slot), and the         *)
(* atmosphere of domain/isa.py with its FlowState.                        *)
(*                                                                         *)
(* Numbers are exact rationals <<n, d>> with d > 0 in lowest terms.  The   *)
(* IEEE values the code can produce are <<1, 0>> (+inf), <<-1, 0>> (-inf)  *)
(* and <<0, 0>> (NaN).  Mach numbers are drawn from values whose           *)
(* Prandtl-Glauert factor is rational, so the square root is exact.        *)
(*                                                                         *)
(* An intermediate result that is read more than once is bound with        *)
(* Pick({ ... : x \in {e} }), which evaluates e once.                      *)
(***************************************************************************)
EXTENDS Integers, Sequences, FiniteSets, TLC

\* config: the process-wide compressibility configuration
\* polar: the polar the caller holds
\* ret: the last call and its outcome
\* loaded: the module-level slot _loaded_alpha, _loaded_cl, _loaded_cd
\* written: history of the slot, the last operation that changed it
\* flow: the FlowState object the caller holds, if any
VARIABLES config, polar, ret, loaded, written, flow

vars == <<config, polar, ret, loaded, written, flow>>

(* ------------------------------ bounds --------------------------------- *)
\* rows of a polar, largest angle of attack of a polar, phases of a batch
MaxLen == 2
MaxAlpha == 2
MaxPhases == 2

(* --------------------------- exact arithmetic -------------------------- *)
Pick(S) == CHOOSE x \in S : TRUE

Abs(x) == IF x < 0 THEN -x ELSE x

Sgn(x) == IF x < 0 THEN -1 ELSE IF x > 0 THEN 1 ELSE 0

RECURSIVE GCD(_, _)
GCD(x, y) == Pick({IF b = 0 THEN a ELSE GCD(b, a % b) : a \in {x}, b \in {y}})

Norm(x, y) ==
    Pick({Pick({<<n \div g, d \div g>> : g \in {GCD(Abs(n), d)}}) : n \in {x}, d \in {y}})

Inf == <<1, 0>>
NegInf == <<-1, 0>>
NaN == <<0, 0>>
Zero == <<0, 1>>
One == <<1, 1>>

IsNaN(a) == a[2] = 0 /\ a[1] = 0
IsFinite(a) == a[2] > 0

FLt(x, y) ==
    \E a \in {x}, b \in {y} :
        /\ ~IsNaN(a)
        /\ ~IsNaN(b)
        /\ IF a[2] = 0 /\ b[2] = 0 THEN a[1] < b[1] ELSE a[1] * b[2] < b[1] * a[2]

FLeq(x, y) ==
    \E a \in {x}, b \in {y} :
        /\ ~IsNaN(a)
        /\ ~IsNaN(b)
        /\ IF a[2] = 0 /\ b[2] = 0 THEN a[1] <= b[1] ELSE a[1] * b[2] <= b[1] * a[2]

FNeg(x) == Pick({<<-a[1], a[2]>> : a \in {x}})

FAdd(x, y) ==
    Pick({IF IsFinite(a) /\ IsFinite(b) THEN Norm(a[1] * b[2] + b[1] * a[2], a[2] * b[2])
          ELSE IF IsNaN(a) \/ IsNaN(b) THEN NaN
          ELSE IF ~IsFinite(a) /\ ~IsFinite(b) THEN (IF a[1] = b[1] THEN a ELSE NaN)
          ELSE IF ~IsFinite(a) THEN a
          ELSE b
          : a \in {x}, b \in {y}})

FSub(x, y) == FAdd(x, FNeg(y))

FMul(x, y) ==
    Pick({IF IsFinite(a) /\ IsFinite(b) THEN Norm(a[1] * b[1], a[2] * b[2])
          ELSE IF IsNaN(a) \/ IsNaN(b) \/ a[1] = 0 \/ b[1] = 0 THEN NaN
          ELSE <<Sgn(a[1]) * Sgn(b[1]), 0>>
          : a \in {x}, b \in {y}})

\* x / y for a divisor that is not zero (the code guards every division)
FDiv(x, y) ==
    Pick({IF IsFinite(a) /\ IsFinite(b) THEN Norm(a[1] * b[2] * Sgn(b[1]), a[2] * Abs(b[1]))
          ELSE IF IsNaN(a) \/ IsNaN(b) THEN NaN
          ELSE IF ~IsFinite(a) /\ ~IsFinite(b) THEN NaN
          ELSE IF ~IsFinite(a) THEN <<Sgn(a[1]) * Sgn(b[1]), 0>>
          ELSE Zero
          : a \in {x}, b \in {y}})

FMax(x, y) == Pick({IF FLt(a, b) THEN b ELSE a : a \in {x}, b \in {y}})

FAbs(x) == Pick({<<Abs(a[1]), a[2]>> : a \in {x}})

ISqrt(k) == CHOOSE r \in 0..k : r * r = k

\* square root of a non-negative rational that has a rational root
FSqrt(x) == Pick({<<ISqrt(a[1]), ISqrt(a[2])>> : a \in {x}})

FromInt(n) == <<n, 1>>

\* the sequence s[1], ..., s[n] with every element evaluated
Seq1(s, n) == SubSeq(s, 1, n)

(* ------------------------------- inputs -------------------------------- *)
\* Mach numbers M with rational sqrt(1 - M^2), plus sonic and supersonic
MachSet == {<<0, 1>>, <<3, 5>>, <<4, 5>>, <<1, 1>>, <<5, 4>>}

\* the Mach numbers of the flight phases handed to the polar operations
PhaseMachs == {<<0, 1>>, <<3, 5>>, <<4, 5>>, <<1, 1>>}

CeilingSet == {<<7, 10>>, <<9, 10>>}

ConfigSet == [use_compressibility : BOOLEAN, mach_max_valid : CeilingSet]

\* strictly increasing integer sequences of length n over lo..MaxAlpha
RECURSIVE IncSeqs(_, _)
IncSeqs(n, lo) ==
    IF n = 0 THEN {<<>>}
    ELSE UNION {{<<a>> \o s : s \in IncSeqs(n - 1, a + 1)} : a \in lo..MaxAlpha}

\* alpha columns: strictly increasing, first angle 0 (every operation depends
\* on differences of angles only)
AlphaSeqs(n) == IF n = 0 THEN {<<>>} ELSE {<<0>> \o s : s \in IncSeqs(n - 1, 1)}

CoefSeqs(n, vals) == [1..n -> {FromInt(v) : v \in vals}]

ClValues == {0 - 1, 0, 1}

CdValues == {0, 1, 2}

Polars(cls, cds) ==
    UNION {{[alpha |-> a, cl |-> l, cd |-> d] :
                a \in AlphaSeqs(n), l \in CoefSeqs(n, cls), d \in CoefSeqs(n, cds)}
           : n \in 0..MaxLen}

PolarSet == Polars(ClValues, CdValues)

\* the polars of the multi-phase runs: positive drag, non-negative lift
BatchPolarSet == Polars({0, 1}, {1, 2})

(* --------------------------- domain/config.py -------------------------- *)
DefaultConfig == [use_compressibility |-> TRUE, mach_max_valid |-> <<7, 10>>]

\* the warnings CompressibilityConfig.validate_mach emits; it never raises
validate_mach(cfg, mach) ==
    IF FLt(cfg.mach_max_valid, mach) THEN {"mach_validity"} ELSE {}

(* ------------------------- aero/compressibility.py --------------------- *)
WaveDragLimit == <<3, 5>>

\* beta that lets Mach 1.0 through
beta_sonic(mach) ==
    IF FLt(One, mach)
    THEN [status |-> "ValueError", err |-> "supersonic", value |-> NaN]
    ELSE [status |-> "ok", err |-> "", value |-> FSqrt(FSub(One, FMul(mach, mach)))]

beta(mach) ==
    IF FLeq(One, mach)
    THEN [status |-> "ValueError", err |-> "supersonic", value |-> NaN]
    ELSE [status |-> "ok", err |-> "", value |-> FSqrt(FSub(One, FMul(mach, mach)))]

\* cl / beta elementwise; raises what beta raises
correct_cl_pg(cl, mach) ==
    Pick({IF b.status # "ok" THEN [status |-> b.status, err |-> b.err, value |-> <<>>]
          ELSE [status |-> "ok", err |-> "",
                value |-> Seq1([i \in 1..Len(cl) |-> FDiv(cl[i], b.value)], Len(cl))]
          : b \in {beta(mach)}})

\* np.argmin: index of the first minimum
RECURSIVE ArgMinFrom(_, _, _)
ArgMinFrom(s, i, best) ==
    IF i > Len(s) THEN best
    ELSE Pick({ArgMinFrom(s, j, b) : j \in {i + 1},
                                     b \in {IF FLt(s[i], s[best]) THEN i ELSE best}})

ArgMin(s) == ArgMinFrom(s, 2, 1)

\* np.argmax: index of the first maximum
RECURSIVE ArgMaxFrom(_, _, _)
ArgMaxFrom(s, i, best) ==
    IF i > Len(s) THEN best
    ELSE Pick({ArgMaxFrom(s, j, b) : j \in {i + 1},
                                     b \in {IF FLt(s[best], s[i]) THEN i ELSE best}})

ArgMax(s) == ArgMaxFrom(s, 2, 1)

\* cd0/beta^2 + (cd - cd0)/beta^3 without the floor
CdCorrected_unfloored(cd, cd0_estimate, b2, b3) ==
    Pick({Seq1([i \in 1..Len(cd) |-> FAdd(floor, FDiv(FSub(cd[i], cd0_estimate), b3))],
               Len(cd))
          : floor \in {FDiv(cd0_estimate, b2)}})

\* cd0/beta^2 + (cd - cd0)/beta^3, floored at cd0/beta^2, for every row
CdCorrected(cd, cd0_estimate, b2, b3) ==
    Pick({Seq1([i \in 1..Len(cd) |->
                   FMax(FAdd(floor, FDiv(FSub(cd[i], cd0_estimate), b3)), floor)], Len(cd))
          : floor \in {FDiv(cd0_estimate, b2)}})

\* the array branch warning from Mach 0.6 on, 0.6 included
correct_cd_pg_warn_at_limit(cd, mach, cl) ==
    Pick({IF b.status # "ok"
          THEN [status |-> b.status, err |-> b.err, value |-> <<>>, warnings |-> {}]
          ELSE IF Len(cl) = 0
          THEN [status |-> "ValueError", err |-> "argmin_empty", value |-> <<>>,
                warnings |-> warn]
          ELSE Pick({[status |-> "ok", err |-> "", warnings |-> warn,
                      value |-> CdCorrected(cd, cd[zero_lift_idx], b2, b3)]
                     : b2 \in {FMul(b.value, b.value)},
                       b3 \in {FMul(FMul(b.value, b.value), b.value)},
                       zero_lift_idx \in
                           {ArgMin(Seq1([i \in 1..Len(cl) |-> FAbs(cl[i])], Len(cl)))}})
          : b \in {beta(mach)},
            warn \in {IF FLeq(WaveDragLimit, mach) THEN {"wave_drag"} ELSE {}}})

\* array branch of correct_cd_pg (cd and cl are arrays, cl is the corrected CL)
correct_cd_pg(cd, mach, cl) ==
    Pick({IF b.status # "ok"
          THEN [status |-> b.status, err |-> b.err, value |-> <<>>, warnings |-> {}]
          ELSE IF Len(cl) = 0
          THEN [status |-> "ValueError", err |-> "argmin_empty", value |-> <<>>,
                warnings |-> warn]
          ELSE Pick({[status |-> "ok", err |-> "", warnings |-> warn,
                      value |-> CdCorrected(cd, cd[zero_lift_idx], b2, b3)]
                     : b2 \in {FMul(b.value, b.value)},
                       b3 \in {FMul(FMul(b.value, b.value), b.value)},
                       zero_lift_idx \in
                           {ArgMin(Seq1([i \in 1..Len(cl) |-> FAbs(cl[i])], Len(cl)))}})
          : b \in {beta(mach)},
            warn \in {IF FLt(WaveDragLimit, mach) THEN {"wave_drag"} ELSE {}}})

\* the scalar branch scaling by beta^2 instead of 1/beta^2
correct_cd_pg_scalar_times(cd, mach) ==
    Pick({IF b.status # "ok"
          THEN [status |-> b.status, err |-> b.err, value |-> NaN, warnings |-> {}]
          ELSE [status |-> "ok", err |-> "", warnings |-> warn,
                value |-> FMul(cd, FMul(b.value, b.value))]
          : b \in {beta(mach)},
            warn \in {IF FLt(WaveDragLimit, mach) THEN {"wave_drag"} ELSE {}}})

\* scalar cd, with a cl given (the "Scalar case") or with cl omitted: cd / beta^2
correct_cd_pg_scalar(cd, mach) ==
    Pick({IF b.status # "ok"
          THEN [status |-> b.status, err |-> b.err, value |-> NaN, warnings |-> {}]
          ELSE [status |-> "ok", err |-> "", warnings |-> warn,
                value |-> FDiv(cd, FMul(b.value, b.value))]
          : b \in {beta(mach)},
            warn \in {IF FLt(WaveDragLimit, mach) THEN {"wave_drag"} ELSE {}}})

\* array cd with cl omitted: cd / beta^2 for every row
correct_cd_pg_no_cl(cd, mach) ==
    Pick({IF b.status # "ok"
          THEN [status |-> b.status, err |-> b.err, value |-> <<>>, warnings |-> {}]
          ELSE Pick({[status |-> "ok", err |-> "", warnings |-> warn,
                      value |-> Seq1([i \in 1..Len(cd) |-> FDiv(cd[i], b2)], Len(cd))]
                     : b2 \in {FMul(b.value, b.value)}})
          : b \in {beta(mach)},
            warn \in {IF FLt(WaveDragLimit, mach) THEN {"wave_drag"} ELSE {}}})

\* the call forms of correct_cd_pg on the columns of p:
\*   "arrays"     correct_cd_pg(cd, mach, cl)         cd and cl arrays
\*   "array"      correct_cd_pg(cd, mach)             cd an array
\*   "scalar_cl"  correct_cd_pg(cd[i], mach, cl[i])   cd and cl floats
\*   "scalar"     correct_cd_pg(cd[i], mach)          cd a float
DragForms == {"arrays", "array", "scalar_cl", "scalar"}

correct_cd_pg_form(form, p, i, mach) ==
    IF form = "arrays" THEN correct_cd_pg(p.cd, mach, p.cl)
    ELSE IF form = "array" THEN correct_cd_pg_no_cl(p.cd, mach)
    ELSE correct_cd_pg_scalar(p.cd[i], mach)

\* steps 3 and 4 of apply_compressibility_to_polar: CL, then CD with the
\* corrected CL, at Mach m; w1 are the warnings of the validation
CorrectColumns(p, m, w1) ==
    Pick({IF c.status # "ok"
          THEN [status |-> c.status, err |-> c.err, polar |-> p, warnings |-> w1]
          ELSE Pick({IF d.status # "ok"
                     THEN [status |-> d.status, err |-> d.err, polar |-> p,
                           warnings |-> w1 \cup d.warnings]
                     ELSE [status |-> "ok", err |-> "",
                           polar |-> [alpha |-> p.alpha, cl |-> c.value, cd |-> d.value],
                           warnings |-> w1 \cup d.warnings]
                     : d \in {correct_cd_pg(p.cd, m, c.value)}})
          : c \in {correct_cl_pg(p.cl, m)}})

\* the correction done at Mach 0.6 once the validity ceiling is exceeded
apply_compressibility_capped(p, mach, cfg) ==
    IF ~cfg.use_compressibility
    THEN [status |-> "ok", err |-> "", polar |-> p, warnings |-> {}]
    ELSE Pick({CorrectColumns(p, m, w1)
               : w1 \in {validate_mach(cfg, mach)},
                 m \in {IF FLt(cfg.mach_max_valid, mach) /\ FLt(mach, One)
                        THEN <<3, 5>> ELSE mach}})

\* validation done before the switch is looked at
apply_compressibility_always(p, mach, cfg) ==
    Pick({IF c.status # "ok"
          THEN [status |-> c.status, err |-> c.err, polar |-> p, warnings |-> w1]
          ELSE [status |-> "ok", err |-> "", polar |-> p, warnings |-> w1]
          : w1 \in {validate_mach(cfg, mach)}, c \in {correct_cl_pg(p.cl, mach)}})

apply_compressibility_to_polar(p, mach, cfg) ==
    IF ~cfg.use_compressibility
    THEN [status |-> "ok", err |-> "", polar |-> p, warnings |-> {}]
    ELSE Pick({CorrectColumns(p, mach, w1) : w1 \in {validate_mach(cfg, mach)}})

(* ----------------------------- aero/metrics.py ------------------------- *)
Raise(kind, what) == [status |-> kind, err |-> what, value |-> NaN]

Return(v) == Pick({[status |-> "ok", err |-> "", value |-> x] : x \in {v}})

\* the minimum-CD search taking the last row
find_alpha_min_cd_last(p) ==
    IF Len(p.alpha) = 0 THEN Raise("ValueError", "empty")
    ELSE Return(p.alpha[Len(p.alpha)])

\* np.argmin taking the last of equal minima
RECURSIVE ArgMinLastFrom(_, _, _)
ArgMinLastFrom(s, i, best) ==
    IF i > Len(s) THEN best
    ELSE Pick({ArgMinLastFrom(s, j, b) : j \in {i + 1},
                                         b \in {IF FLeq(s[i], s[best]) THEN i ELSE best}})

\* the minimum-CD search resolving ties by the last occurrence
find_alpha_min_cd_tie_last(p) ==
    IF Len(p.alpha) = 0 THEN Raise("ValueError", "empty")
    ELSE Return(p.alpha[ArgMinLastFrom(p.cd, 2, 1)])

find_alpha_min_cd(p) ==
    IF Len(p.alpha) = 0 THEN Raise("ValueError", "empty")
    ELSE Return(p.alpha[ArgMin(p.cd)])

\* the maximum-L/D search maximising CL alone
find_alpha_max_cl(p) ==
    IF Len(p.alpha) = 0 THEN Raise("ValueError", "empty")
    ELSE IF \E i \in 1..Len(p.cd) : FLeq(p.cd[i], Zero) THEN Raise("ValueError", "invalid_cd")
    ELSE Return(p.alpha[ArgMax(p.cl)])

\* np.argmax taking the last of equal maxima
RECURSIVE ArgMaxLastFrom(_, _, _)
ArgMaxLastFrom(s, i, best) ==
    IF i > Len(s) THEN best
    ELSE Pick({ArgMaxLastFrom(s, j, b) : j \in {i + 1},
                                         b \in {IF FLeq(s[best], s[i]) THEN i ELSE best}})

\* the maximum-L/D search resolving ties by the last occurrence
find_alpha_max_ld_tie_last(p) ==
    IF Len(p.alpha) = 0 THEN Raise("ValueError", "empty")
    ELSE IF \E i \in 1..Len(p.cd) : FLeq(p.cd[i], Zero) THEN Raise("ValueError", "invalid_cd")
    ELSE Return(p.alpha[ArgMaxLastFrom(Seq1([i \in 1..Len(p.cl) |-> FDiv(p.cl[i], p.cd[i])],
                                            Len(p.cl)), 2, 1)])

find_alpha_max_ld(p) ==
    IF Len(p.alpha) = 0 THEN Raise("ValueError", "empty")
    ELSE IF \E i \in 1..Len(p.cd) : FLeq(p.cd[i], Zero) THEN Raise("ValueError", "invalid_cd")
    ELSE Return(p.alpha[ArgMax(Seq1([i \in 1..Len(p.cl) |-> FDiv(p.cl[i], p.cd[i])],
                                    Len(p.cl)))])

SeqMin(s) == s[CHOOSE i \in 1..Len(s) : \A j \in 1..Len(s) : s[i] <= s[j]]

SeqMax(s) == s[CHOOSE i \in 1..Len(s) : \A j \in 1..Len(s) : s[i] >= s[j]]

\* np.interp taking the first of several rows recorded at the angle x
Interp_first(x, xp, fp) ==
    IF x < xp[1] THEN fp[1]
    ELSE IF x > xp[Len(xp)] THEN fp[Len(xp)]
    ELSE Pick({IF xp[j] = x THEN fp[j]
               ELSE FAdd(FMul(FDiv(FSub(fp[j], fp[j - 1]), FromInt(xp[j] - xp[j - 1])),
                              FromInt(x - xp[j - 1])),
                         fp[j - 1])
               : j \in {CHOOSE k \in 1..Len(xp) :
                            xp[k] >= x /\ \A m \in 1..Len(xp) : xp[m] >= x => m >= k}})

\* np.interp(x, xp, fp) for increasing xp: boundary values outside the range,
\* the recorded value at the last knot <= x when x is that knot, a line otherwise
Interp(x, xp, fp) ==
    IF x < xp[1] THEN fp[1]
    ELSE IF x > xp[Len(xp)] THEN fp[Len(xp)]
    ELSE Pick({IF j = Len(xp) \/ xp[j] = x THEN fp[j]
               ELSE FAdd(FMul(FDiv(FSub(fp[j + 1], fp[j]), FromInt(xp[j + 1] - xp[j])),
                              FromInt(x - xp[j])),
                         fp[j])
               : j \in {CHOOSE k \in 1..Len(xp) :
                            xp[k] <= x /\ \A m \in 1..Len(xp) : xp[m] <= x => m <= k}})

\* the lookup of compute_metrics_at_alpha taking +infinity whenever cd <= 0
MetricsAt_inf(p, alpha) ==
    Pick({Return([cl |-> cl, cd |-> cd,
                  ld |-> IF FLeq(cd, Zero) THEN Inf ELSE FDiv(cl, cd)])
          : cl \in {Interp(alpha, p.alpha, p.cl)}, cd \in {Interp(alpha, p.alpha, p.cd)}})

\* lines 91-104 of compute_metrics_at_alpha: interpolate and form L/D
MetricsAt(p, alpha) ==
    Pick({Return([cl |-> cl, cd |-> cd,
                  ld |-> IF FLeq(cd, Zero) THEN (IF FLt(Zero, cl) THEN Inf ELSE NegInf)
                         ELSE FDiv(cl, cd)])
          : cl \in {Interp(alpha, p.alpha, p.cl)}, cd \in {Interp(alpha, p.alpha, p.cd)}})

\* the lookup clamping an out-of-range angle as interp_cl_cd does
compute_metrics_clamping(p, alpha) ==
    IF Len(p.alpha) = 0 THEN Raise("ValueError", "empty")
    ELSE MetricsAt(p, alpha)

compute_metrics_at_alpha(p, alpha) ==
    IF Len(p.alpha) = 0 THEN Raise("ValueError", "empty")
    ELSE IF alpha < SeqMin(p.alpha) \/ alpha > SeqMax(p.alpha)
    THEN Raise("ValueError", "out_of_range")
    ELSE MetricsAt(p, alpha)

(* ------------------------ aero/incidence_control.py -------------------- *)
Targets == {"min_cd", "max_ld"}

\* the outcome r of a call together with the warnings w emitted on the way
Warned(r, w) ==
    Pick({[status |-> x.status, err |-> x.err, value |-> x.value, warnings |-> w]
          : x \in {r}})

\* alpha_fpf searching the base polar instead of the corrected one
alpha_fpf_uncorrected(nargs, p, mach, target, cfg) ==
    IF nargs < 2 THEN Warned(Raise("TypeError", "missing_cruise_phase"), {})
    ELSE Pick({IF c.status # "ok" THEN Warned(Raise(c.status, c.err), c.warnings)
               ELSE IF target = "min_cd" THEN Warned(find_alpha_min_cd(p), c.warnings)
               ELSE IF target = "max_ld" THEN Warned(find_alpha_max_ld(p), c.warnings)
               ELSE Warned(Raise("ValueError", "invalid_target"), c.warnings)
               : c \in {apply_compressibility_to_polar(p, mach, cfg)}})

\* alpha_fpf(polar, cruise_phase, target="max_ld"); nargs is the number of
\* positional arguments of the call, the first of them bound to polar
alpha_fpf(nargs, p, mach, target, cfg) ==
    IF nargs < 2 THEN Warned(Raise("TypeError", "missing_cruise_phase"), {})
    ELSE Pick({IF c.status # "ok" THEN Warned(Raise(c.status, c.err), c.warnings)
               ELSE IF target = "min_cd" THEN Warned(find_alpha_min_cd(c.polar), c.warnings)
               ELSE IF target = "max_ld" THEN Warned(find_alpha_max_ld(c.polar), c.warnings)
               ELSE Warned(Raise("ValueError", "invalid_target"), c.warnings)
               : c \in {apply_compressibility_to_polar(p, mach, cfg)}})

alpha_vpf(p, target) ==
    IF target = "min_cd" THEN find_alpha_min_cd(p)
    ELSE IF target = "max_ld" THEN find_alpha_max_ld(p)
    ELSE Raise("ValueError", "invalid_target")

Hundred == <<100, 1>>

\* the result dictionary with 0.0 in place of +infinity for a guarded ratio
Comparison_zero_ratio(fpf_alpha, vpf_alpha, fm, vm) ==
    [fpf_alpha |-> fpf_alpha,
     vpf_alpha |-> vpf_alpha,
     fpf_cd |-> fm.cd,
     vpf_cd |-> vm.cd,
     fpf_ld |-> fm.ld,
     vpf_ld |-> vm.ld,
     delta_cd |-> FSub(vm.cd, fm.cd),
     delta_ld |-> FSub(vm.ld, fm.ld),
     cd_ratio |-> IF FLt(Zero, fm.cd) THEN FDiv(vm.cd, fm.cd) ELSE Zero,
     ld_ratio |-> IF FLt(Zero, fm.ld) THEN FDiv(vm.ld, fm.ld) ELSE Zero,
     cd_reduction_pct |->
         IF FLt(Zero, fm.cd) THEN FMul(FDiv(FSub(fm.cd, vm.cd), fm.cd), Hundred) ELSE Zero,
     ld_improvement_pct |->
         IF FLt(Zero, fm.ld) THEN FMul(FDiv(FSub(vm.ld, fm.ld), fm.ld), Hundred) ELSE Zero]

\* the result dictionary of compare_phase from the two metric lookups
Comparison(fpf_alpha, vpf_alpha, fm, vm) ==
    [fpf_alpha |-> fpf_alpha,
     vpf_alpha |-> vpf_alpha,
     fpf_cd |-> fm.cd,
     vpf_cd |-> vm.cd,
     fpf_ld |-> fm.ld,
     vpf_ld |-> vm.ld,
     delta_cd |-> FSub(vm.cd, fm.cd),
     delta_ld |-> FSub(vm.ld, fm.ld),
     cd_ratio |-> IF FLt(Zero, fm.cd) THEN FDiv(vm.cd, fm.cd) ELSE Inf,
     ld_ratio |-> IF FLt(Zero, fm.ld) THEN FDiv(vm.ld, fm.ld) ELSE Inf,
     cd_reduction_pct |->
         IF FLt(Zero, fm.cd) THEN FMul(FDiv(FSub(fm.cd, vm.cd), fm.cd), Hundred) ELSE Zero,
     ld_improvement_pct |->
         IF FLt(Zero, fm.ld) THEN FMul(FDiv(FSub(vm.ld, fm.ld), fm.ld), Hundred) ELSE Zero]

\* compare_phase after the correction: q is the phase's corrected polar
ComparePolar(q, fpf_alpha, vpf_target) ==
    Pick({IF v.status # "ok" THEN Raise(v.status, v.err)
          ELSE Pick({IF fm.status # "ok" THEN Raise(fm.status, fm.err)
                     ELSE Pick({IF vm.status # "ok" THEN Raise(vm.status, vm.err)
                                ELSE Return(Comparison(fpf_alpha, v.value, fm.value, vm.value))
                                : vm \in {compute_metrics_at_alpha(q, v.value)}})
                     : fm \in {compute_metrics_at_alpha(q, fpf_alpha)}})
          : v \in {alpha_vpf(q, vpf_target)}})

\* compare_phase(polar, phase, fpf_alpha, vpf_target="max_ld"); hasFpf tells
\* whether the call passes fpf_alpha at all
compare_phase(p, mach, hasFpf, fpf_alpha, vpf_target, cfg) ==
    IF ~hasFpf THEN Warned(Raise("TypeError", "missing_fpf_alpha"), {})
    ELSE Pick({IF c.status # "ok" THEN Warned(Raise(c.status, c.err), c.warnings)
               ELSE Warned(ComparePolar(c.polar, fpf_alpha, vpf_target), c.warnings)
               : c \in {apply_compressibility_to_polar(p, mach, cfg)}})

(* ---------------------------- aero/optima.py --------------------------- *)
optima_find_alpha_min_cd(p) ==
    IF Len(p.alpha) = 0 THEN Raise("ValueError", "empty")
    ELSE Return(p.alpha[ArgMin(p.cd)])

(* ------------------------- scripts/vpf_vs_fpf_2d.py -------------------- *)
\* the fixed angle brought into the alpha range of polar q
ClampAlpha(q, fixed_alpha) ==
    IF fixed_alpha < SeqMin(q.alpha) THEN SeqMin(q.alpha)
    ELSE IF fixed_alpha > SeqMax(q.alpha) THEN SeqMax(q.alpha)
    ELSE fixed_alpha

\* the per-phase record: angles, their difference and the CD at each angle
PhaseResult(q, phase, alpha_min_cd, clamped) ==
    Pick({[phase |-> phase.name,
           mach |-> phase.mach,
           alpha_min_cd |-> alpha_min_cd,
           alpha_fpf |-> clamped,
           delta_alpha_pitch |-> alpha_min_cd - clamped,
           cd_at_alpha_min |-> vpf_cd,
           cd_fpf |-> fpf_cd,
           delta_cd |-> FSub(vpf_cd, fpf_cd)]
          : vpf_cd \in {Interp(alpha_min_cd, q.alpha, q.cd)},
            fpf_cd \in {Interp(clamped, q.alpha, q.cd)}})

\* compute_phase_results(polar_base, phase, alpha_fpf): one phase of the
\* fixed-angle-from-cruise policy.  The phase's polar is corrected at its
\* Mach, the VPF angle is the minimum-CD angle of that polar, and the fixed
\* FPF angle is clamped into the polar's alpha range with a warning.
compute_phase_results(p, phase, fixed_alpha, cfg) ==
    Pick({IF c.status # "ok" THEN Warned(Raise(c.status, c.err), c.warnings)
          ELSE Pick({IF v.status # "ok" THEN Warned(Raise(v.status, v.err), c.warnings)
                     ELSE Pick({Warned(Return(PhaseResult(c.polar, phase, v.value, clamped)),
                                       c.warnings \cup
                                           (IF clamped # fixed_alpha THEN {"fpf_clamped"}
                                            ELSE {}))
                                : clamped \in {ClampAlpha(c.polar, fixed_alpha)}})
                     : v \in {find_alpha_min_cd(c.polar)}})
          : c \in {apply_compressibility_to_polar(p, phase.mach, cfg)}})

\* the reference phase taken to be the first of the list
CruisePhase_first(phases) == phases[1]

\* next((p for p in phases if p.name == "cruise"), phases[0])
CruisePhase(phases) ==
    IF \E i \in 1..Len(phases) : phases[i].name = "cruise"
    THEN phases[CHOOSE i \in 1..Len(phases) :
                    /\ phases[i].name = "cruise"
                    /\ \A j \in 1..(i - 1) : phases[j].name # "cruise"]
    ELSE phases[1]

\* the loop leaving at the first phase that raises
RECURSIVE PhaseLoop_break(_, _, _, _, _, _, _)
PhaseLoop_break(p, phases, i, fixed_alpha, cfg, results, log) ==
    IF i > Len(phases) THEN [results |-> results, log |-> log]
    ELSE Pick({IF r.status = "ok"
               THEN Pick({PhaseLoop_break(p, phases, j, fixed_alpha, cfg, res, lg)
                          : j \in {i + 1}, res \in {Append(results, r.value)},
                            lg \in {Append(log, [tag |-> "OK", phase |-> i])}})
               ELSE [results |-> results,
                     log |-> Append(log, [tag |-> "ERROR", phase |-> i])]
               : r \in {compute_phase_results(p, phases[i], fixed_alpha, cfg)}})

\* the for loop of compute_all_phase_results from phase i on: a phase that
\* raises is printed as an error and skipped
RECURSIVE PhaseLoop(_, _, _, _, _, _, _)
PhaseLoop(p, phases, i, fixed_alpha, cfg, results, log) ==
    IF i > Len(phases) THEN [results |-> results, log |-> log]
    ELSE Pick({IF r.status = "ok"
               THEN Pick({PhaseLoop(p, phases, j, fixed_alpha, cfg, res, lg)
                          : j \in {i + 1}, res \in {Append(results, r.value)},
                            lg \in {Append(log, [tag |-> "OK", phase |-> i])}})
               ELSE Pick({PhaseLoop(p, phases, j, fixed_alpha, cfg, results, lg)
                          : j \in {i + 1},
                            lg \in {Append(log, [tag |-> "ERROR", phase |-> i])}})
               : r \in {compute_phase_results(p, phases[i], fixed_alpha, cfg)}})

\* the outcome of a batch that raised before its loop
Aborted(kind, what) ==
    [status |-> kind, err |-> what, value |-> <<>>, fixed |-> 0, log |-> <<>>]

\* compute_all_phase_results(polar_base, phases): value is the returned list,
\* fixed is the FPF angle of step 1, log the printed per-phase lines
compute_all_phase_results(p, phases, cfg) ==
    IF Len(phases) = 0 THEN Aborted("IndexError", "no_phases")
    ELSE Pick({IF polar_cruise.status # "ok"
               THEN Aborted(polar_cruise.status, polar_cruise.err)
               ELSE Pick({IF a.status # "ok" THEN Aborted(a.status, a.err)
                          ELSE Pick({[status |-> "ok", err |-> "", value |-> l.results,
                                      fixed |-> a.value, log |-> l.log]
                                     : l \in {PhaseLoop(p, phases, 1, a.value, cfg,
                                                        <<>>, <<>>)}})
                          : a \in {optima_find_alpha_min_cd(polar_cruise.polar)}})
               : polar_cruise \in
                     {apply_compressibility_to_polar(p, CruisePhase(phases).mach, cfg)}})

(* ----------------------------- domain/isa.py --------------------------- *)
\* kelvin
T0 == <<5763, 20>>

\* kelvin per metre
LAPSE_RATE == <<0 - 13, 2000>>

\* metres
TROPOPAUSE_ALT == 11000

\* altitudes below, at and above sea level, and around the tropopause
Altitudes == {0 - 100, 0 - 1, 0, 5000, 11000, 11001, 15000}

\* The temperature is computed exactly.  Pressure, density and speed of sound
\* go through pow, exp and sqrt: each is kept as the term naming the quantity,
\* the layer whose formula produced it and the altitude it was evaluated at.
Sample(layer, T, altitude_m) ==
    [layer |-> layer, T |-> T,
     p |-> <<"p", layer, altitude_m>>,
     rho |-> <<"rho", layer, altitude_m>>,
     a |-> <<"a", layer, altitude_m>>]

RaiseNegativeAltitude == [status |-> "ValueError", err |-> "negative_altitude", value |-> <<>>]

\* isa_atmosphere rejecting sea level as well
isa_atmosphere_above_sea(altitude_m) ==
    IF altitude_m <= 0 THEN RaiseNegativeAltitude
    ELSE IF altitude_m <= TROPOPAUSE_ALT
    THEN Return(Sample("troposphere", FAdd(T0, FMul(LAPSE_RATE, FromInt(altitude_m))),
                       altitude_m))
    ELSE Return(Sample("stratosphere", FAdd(T0, FMul(LAPSE_RATE, FromInt(TROPOPAUSE_ALT))),
                       altitude_m))

isa_atmosphere(altitude_m) ==
    IF altitude_m < 0 THEN RaiseNegativeAltitude
    ELSE IF altitude_m <= TROPOPAUSE_ALT
    THEN Return(Sample("troposphere", FAdd(T0, FMul(LAPSE_RATE, FromInt(altitude_m))),
                       altitude_m))
    ELSE Return(Sample("stratosphere", FAdd(T0, FMul(LAPSE_RATE, FromInt(TROPOPAUSE_ALT))),
                       altitude_m))

\* FlowState(altitude_m, mach): a frozen dataclass without __post_init__
FlowState(altitude_m, mach) == [altitude_m |-> altitude_m, mach |-> mach]

\* the properties T, p, rho and a: one isa_atmosphere call each
FlowState_sample(self, name) ==
    Pick({IF s.status # "ok" THEN s
          ELSE Return(IF name = "T" THEN s.value.T
                      ELSE IF name = "p" THEN s.value.p
                      ELSE IF name = "rho" THEN s.value.rho
                      ELSE s.value.a)
          : s \in {isa_atmosphere(self.altitude_m)}})

\* TAS = self.mach * self.a
FlowState_TAS(self) ==
    Pick({IF a.status # "ok" THEN a ELSE Return(<<"mul", self.mach, a.value>>)
          : a \in {FlowState_sample(self, "a")}})

\* q = 0.5 * self.rho * self.TAS**2: rho is read first, then TAS
FlowState_q(self) ==
    Pick({IF rho.status # "ok" THEN rho
          ELSE Pick({IF tas.status # "ok" THEN tas
                     ELSE Return(<<"half_rho_tas2", rho.value, tas.value>>)
                     : tas \in {FlowState_TAS(self)}})
          : rho \in {FlowState_sample(self, "rho")}})

Properties == {"T", "p", "rho", "a", "TAS", "q"}

FlowState_get(self, name) ==
    IF name = "TAS" THEN FlowState_TAS(self)
    ELSE IF name = "q" THEN FlowState_q(self)
    ELSE FlowState_sample(self, name)

(* ------------------------------ the calls ------------------------------ *)
NoPhases == <<>>

Call(op, mach, hasFpf, fpf, target, phases, r, log) ==
    [op |-> op, mach |-> mach, has_fpf |-> hasFpf, fpf |-> fpf, target |-> target,
     phases |-> phases, status |-> r.status, err |-> r.err, value |-> r.value,
     warnings |-> r.warnings, log |-> log]

NoCall == [op |-> "none", mach |-> Zero, has_fpf |-> FALSE, fpf |-> 0, target |-> "",
           phases |-> NoPhases, status |-> "ok", err |-> "", value |-> <<>>,
           warnings |-> {}, log |-> <<>>]

PhaseNames == {"cruise", "takeoff"}

\* phases of the batch: a subsonic Mach and a sonic one, which the corrector rejects
BatchMachs == {<<4, 5>>, <<1, 1>>}

PhaseSet == [name : PhaseNames, mach : BatchMachs]

PhaseLists == UNION {[1..n -> PhaseSet] : n \in 0..MaxPhases}

\* fpf_alpha arguments: inside and one step outside every alpha range
FpfAlphas == (0 - 1)..(MaxAlpha + 1)

\* a module global holding None, and one holding the array a
None == <<>>

Some(a) == <<a>>

\* the slot as polars.py is imported: nothing loaded
NotLoaded == [alpha |-> None, cl |-> None, cd |-> None]

\* the history of a slot no operation has changed yet
NeverWritten == [op |-> "none", prev |-> "none", data |-> NotLoaded]

Init ==
    /\ config = DefaultConfig
    /\ polar \in PolarSet
    /\ ret = NoCall
    /\ loaded = NotLoaded
    /\ written = NeverWritten
    /\ flow = None

Idle == ret.op = "none"

\* set_config(config)
SetConfig ==
    /\ Idle
    /\ \E c \in ConfigSet : config' = c
    /\ UNCHANGED <<polar, ret, loaded, written, flow>>

\* the caller takes the result of the last call
Done ==
    /\ ~Idle
    /\ ret' = NoCall
    /\ UNCHANGED <<config, polar, loaded, written, flow>>

\* beta(mach)
Beta ==
    /\ Idle
    /\ \E m \in MachSet :
          \E b \in {beta(m)} :
              ret' = Call("beta", m, FALSE, 0, "", NoPhases, Warned(b, {}), <<>>)
    /\ UNCHANGED <<config, polar, loaded, written, flow>>

\* apply_compressibility_to_polar(polar, mach)
ApplyCompressibility ==
    /\ Idle
    /\ \E m \in PhaseMachs :
          \E a \in {apply_compressibility_to_polar(polar, m, config)} :
              ret' = Call("apply", m, FALSE, 0, "", NoPhases,
                          [status |-> a.status, err |-> a.err, value |-> a.polar,
                           warnings |-> a.warnings], <<>>)
    /\ UNCHANGED <<config, polar, loaded, written, flow>>

\* alpha_fpf(phase), alpha_fpf(polar, phase), alpha_fpf(polar, phase, target)
AlphaFpf ==
    /\ Idle
    /\ \E m \in PhaseMachs, nargs \in 1..3, t \in Targets :
          /\ nargs < 3 => t = "max_ld"
          /\ \E a \in {alpha_fpf(nargs, polar, m, t, config)} :
                 ret' = Call("alpha_fpf", m, FALSE, nargs, t, NoPhases, a, <<>>)
    /\ UNCHANGED <<config, polar, loaded, written, flow>>

\* compare_phase(polar, phase, fpf_alpha, vpf_target) and
\* compare_phase(polar, phase, vpf_target=...)
ComparePhase ==
    /\ Idle
    /\ \E m \in PhaseMachs, hasFpf \in BOOLEAN, f \in FpfAlphas, t \in Targets :
          /\ ~hasFpf => f = 0
          /\ \E r \in {compare_phase(polar, m, hasFpf, f, t, config)} :
                 ret' = Call("compare_phase", m, hasFpf, f, t, NoPhases, r, <<>>)
    /\ UNCHANGED <<config, polar, loaded, written, flow>>

\* compute_all_phase_results(polar_base, phases)
ComputeAllPhaseResults ==
    /\ Idle
    /\ \E ps \in PhaseLists :
          \E r \in {compute_all_phase_results(polar, ps, config)} :
              ret' = Call("compute_all", Zero, FALSE, r.fixed, "min_cd", ps,
                          Warned(r, {}), r.log)
    /\ UNCHANGED <<config, polar, loaded, written, flow>>

Next ==
    \/ SetConfig
    \/ Done
    \/ Beta
    \/ ApplyCompressibility
    \/ AlphaFpf
    \/ ComparePhase

Spec == Init /\ [][Next]_vars

\* the multi-phase script
InitBatch ==
    /\ config = DefaultConfig
    /\ polar \in BatchPolarSet
    /\ ret = NoCall
    /\ loaded = NotLoaded
    /\ written = NeverWritten
    /\ flow = None

NextBatch ==
    \/ SetConfig
    \/ Done
    \/ ComputeAllPhaseResults

SpecBatch == InitBatch /\ [][NextBatch]_vars

(* --------------------------- aero/calculations.py ---------------------- *)
\* interpolate_polar rejecting the boundary angles as well
interpolate_polar_open(alpha, alpha_array, cl_array) ==
    IF Len(alpha_array) = 0 THEN Raise("ValueError", "zero_size_array")
    ELSE IF alpha <= SeqMin(alpha_array) \/ alpha >= SeqMax(alpha_array)
    THEN Raise("ValueError", "out_of_range")
    ELSE Return(Interp(alpha, alpha_array, cl_array))

\* interpolate_polar(alpha, alpha_array, cl_array); the minimum of an empty
\* array is numpy's ValueError
interpolate_polar(alpha, alpha_array, cl_array) ==
    IF Len(alpha_array) = 0 THEN Raise("ValueError", "zero_size_array")
    ELSE IF alpha < SeqMin(alpha_array) \/ alpha > SeqMax(alpha_array)
    THEN Raise("ValueError", "out_of_range")
    ELSE Return(Interp(alpha, alpha_array, cl_array))

(* ----------------- calls of the lookups and the optimum finders -------- *)
\* non-decreasing integer sequences of length n over lo..MaxAlpha
RECURSIVE NonDecSeqs(_, _)
NonDecSeqs(n, lo) ==
    IF n = 0 THEN {<<>>}
    ELSE UNION {{<<a>> \o s : s \in NonDecSeqs(n - 1, a)} : a \in lo..MaxAlpha}

\* alpha columns that may repeat an angle, first angle 0
RepeatingAlphaSeqs(n) == IF n = 0 THEN {<<>>} ELSE {<<0>> \o s : s \in NonDecSeqs(n - 1, 0)}

MetricCdValues == {0 - 1, 0, 1, 2}

\* polars of the direct calls: alpha strictly or non-strictly increasing,
\* drag of either sign
MetricPolarSet ==
    UNION {{[alpha |-> a, cl |-> l, cd |-> d] :
                a \in RepeatingAlphaSeqs(n), l \in CoefSeqs(n, ClValues),
                d \in CoefSeqs(n, MetricCdValues)}
           : n \in 0..MaxLen}

InitMetrics ==
    /\ config = DefaultConfig
    /\ polar \in MetricPolarSet
    /\ ret = NoCall
    /\ loaded = NotLoaded
    /\ written = NeverWritten
    /\ flow = None

\* compute_metrics_at_alpha(polar, alpha)
ComputeMetricsAtAlpha ==
    /\ Idle
    /\ \E a \in FpfAlphas :
          \E r \in {compute_metrics_at_alpha(polar, a)} :
              ret' = Call("compute_metrics_at_alpha", Zero, FALSE, a, "", NoPhases,
                          Warned(r, {}), <<>>)
    /\ UNCHANGED <<config, polar, loaded, written, flow>>

\* interpolate_polar(alpha, alpha_array, cl_array)
InterpolatePolar ==
    /\ Idle
    /\ \E a \in FpfAlphas :
          \E r \in {interpolate_polar(a, polar.alpha, polar.cl)} :
              ret' = Call("interpolate_polar", Zero, FALSE, a, "", NoPhases,
                          Warned(r, {}), <<>>)
    /\ UNCHANGED <<config, polar, loaded, written, flow>>

\* find_alpha_min_cd(polar) of aero/metrics.py and of aero/optima.py
FindAlphaMinCd ==
    /\ Idle
    /\ \E module \in {"metrics", "optima"} :
          \E r \in {IF module = "metrics" THEN find_alpha_min_cd(polar)
                    ELSE optima_find_alpha_min_cd(polar)} :
              ret' = Call("find_alpha_min_cd", Zero, FALSE, 0, module, NoPhases,
                          Warned(r, {}), <<>>)
    /\ UNCHANGED <<config, polar, loaded, written, flow>>

\* find_alpha_max_ld(polar)
FindAlphaMaxLd ==
    /\ Idle
    /\ \E r \in {find_alpha_max_ld(polar)} :
          ret' = Call("find_alpha_max_ld", Zero, FALSE, 0, "", NoPhases, Warned(r, {}), <<>>)
    /\ UNCHANGED <<config, polar, loaded, written, flow>>

NextMetrics ==
    \/ Done
    \/ ComputeMetricsAtAlpha
    \/ InterpolatePolar
    \/ FindAlphaMinCd
    \/ FindAlphaMaxLd

SpecMetrics == InitMetrics /\ [][NextMetrics]_vars

(* ------------------------ the design-point calls ----------------------- *)
\* fpf_alpha = alpha_fpf(polar, phase, target), then
\* compare_phase(polar, phase, fpf_alpha, target) for the same phase and
\* target; when alpha_fpf raises, the comparison is never called
DesignComparison ==
    /\ Idle
    /\ \E m \in PhaseMachs, t \in Targets :
          \E a \in {alpha_fpf(3, polar, m, t, config)} :
              IF a.status # "ok"
              THEN ret' = Call("alpha_fpf", m, FALSE, 3, t, NoPhases, a, <<>>)
              ELSE \E r \in {compare_phase(polar, m, TRUE, a.value, t, config)} :
                       ret' = Call("compare_phase", m, TRUE, a.value, t, NoPhases, r, <<>>)
    /\ UNCHANGED <<config, polar, loaded, written, flow>>

NextDesign ==
    \/ SetConfig
    \/ Done
    \/ ApplyCompressibility
    \/ DesignComparison

SpecDesign == Init /\ [][NextDesign]_vars

(* ------------------- calls of correct_cd_pg on its own ----------------- *)
\* subsonic Mach numbers with rational beta on both sides of 0.6, then
\* sonic and supersonic
DragMachs == {<<0, 1>>, <<5, 13>>, <<3, 5>>, <<4, 5>>, <<12, 13>>, <<1, 1>>, <<5, 4>>}

\* the columns handed to correct_cd_pg: the angles play no part in it
DragPolarSet ==
    UNION {{[alpha |-> Seq1([i \in 1..n |-> i - 1], n), cl |-> l, cd |-> d] :
                l \in CoefSeqs(n, ClValues), d \in CoefSeqs(n, MetricCdValues)}
           : n \in 0..MaxLen}

DragCall(form, i, mach, r) ==
    [op |-> "correct_cd_pg", form |-> form, idx |-> i, mach |-> mach,
     status |-> r.status, err |-> r.err, value |-> r.value, warnings |-> r.warnings]

InitDrag ==
    /\ config = DefaultConfig
    /\ polar \in DragPolarSet
    /\ ret = NoCall
    /\ loaded = NotLoaded
    /\ written = NeverWritten
    /\ flow = None

\* correct_cd_pg in each of its call forms
CorrectCdPg ==
    /\ Idle
    /\ \E m \in DragMachs, form \in DragForms, i \in 0..Len(polar.cd) :
          /\ form \in {"arrays", "array"} <=> i = 0
          /\ \E r \in {correct_cd_pg_form(form, polar, i, m)} :
                 ret' = DragCall(form, i, m, r)
    /\ UNCHANGED <<config, polar, loaded, written, flow>>

NextDrag ==
    \/ Done
    \/ CorrectCdPg

SpecDrag == InitDrag /\ [][NextDrag]_vars

(* ------------------------ calls of domain/isa.py ----------------------- *)
\* Mach numbers of a FlowState: nothing restricts them
FlowMachs == {<<0, 1>>, <<4, 5>>, <<5, 4>>}

IsaCall(op, arg, r) ==
    [op |-> op, arg |-> arg, status |-> r.status, err |-> r.err, value |-> r.value]

InitIsa ==
    /\ config = DefaultConfig
    /\ polar = [alpha |-> <<>>, cl |-> <<>>, cd |-> <<>>]
    /\ ret = NoCall
    /\ loaded = NotLoaded
    /\ written = NeverWritten
    /\ flow = None

\* isa_atmosphere(altitude_m)
IsaAtmosphere ==
    /\ Idle
    /\ \E h \in Altitudes :
          \E r \in {isa_atmosphere(h)} : ret' = IsaCall("isa_atmosphere", h, r)
    /\ UNCHANGED <<config, polar, loaded, written, flow>>

\* flow = FlowState(altitude_m, mach)
NewFlowState ==
    /\ Idle
    /\ \E h \in Altitudes, m \in FlowMachs :
          \E fs \in {FlowState(h, m)} :
              /\ flow' = Some(fs)
              /\ ret' = IsaCall("FlowState", fs, Return(fs))
    /\ UNCHANGED <<config, polar, loaded, written>>

\* flow.T, flow.p, flow.rho, flow.a, flow.TAS, flow.q
FlowProperty ==
    /\ Idle
    /\ flow # None
    /\ \E name \in Properties :
          \E r \in {FlowState_get(flow[1], name)} : ret' = IsaCall(name, flow[1], r)
    /\ UNCHANGED <<config, polar, loaded, written, flow>>

NextIsa ==
    \/ Done
    \/ IsaAtmosphere
    \/ NewFlowState
    \/ FlowProperty

SpecIsa == InitIsa /\ [][NextIsa]_vars

(* ------------------------------ aero/polars.py ------------------------- *)
\* the slot after set_polar_data has stored the three arrays of p
Stored(p) == [alpha |-> Some(p.alpha), cl |-> Some(p.cl), cd |-> Some(p.cd)]

\* interp_cl_cd warning only below the minimum
interp_cl_cd_quiet_above(slot, alpha_deg) ==
    IF slot.alpha = None \/ slot.cl = None \/ slot.cd = None
    THEN [status |-> "RuntimeError", err |-> "not_loaded", value |-> NaN, warnings |-> <<>>]
    ELSE IF Len(slot.alpha[1]) = 0
    THEN [status |-> "RuntimeError", err |-> "not_loaded", value |-> NaN, warnings |-> <<>>]
    ELSE Pick({Pick({[status |-> "ok", err |-> "",
                      value |-> [cl |-> Interp(a, slot.alpha[1], slot.cl[1]),
                                 cd |-> Interp(a, slot.alpha[1], slot.cd[1])],
                      warnings |-> IF alpha_deg < alpha_min THEN <<"below_minimum">>
                                   ELSE <<>>]
                     : a \in {IF alpha_deg < alpha_min THEN alpha_min
                              ELSE IF alpha_deg > alpha_max THEN alpha_max
                              ELSE alpha_deg}})
               : alpha_min \in {SeqMin(slot.alpha[1])}, alpha_max \in {SeqMax(slot.alpha[1])}})

\* interp_cl_cd(alpha_deg) on the slot; warnings is the list of warnings
\* emitted, in order
interp_cl_cd(slot, alpha_deg) ==
    IF slot.alpha = None \/ slot.cl = None \/ slot.cd = None
    THEN [status |-> "RuntimeError", err |-> "not_loaded", value |-> NaN, warnings |-> <<>>]
    ELSE IF Len(slot.alpha[1]) = 0
    THEN [status |-> "RuntimeError", err |-> "not_loaded", value |-> NaN, warnings |-> <<>>]
    ELSE Pick({Pick({[status |-> "ok", err |-> "",
                      value |-> [cl |-> Interp(a, slot.alpha[1], slot.cl[1]),
                                 cd |-> Interp(a, slot.alpha[1], slot.cd[1])],
                      warnings |-> IF alpha_deg < alpha_min THEN <<"below_minimum">>
                                   ELSE IF alpha_deg > alpha_max THEN <<"above_maximum">>
                                   ELSE <<>>]
                     : a \in {IF alpha_deg < alpha_min THEN alpha_min
                              ELSE IF alpha_deg > alpha_max THEN alpha_max
                              ELSE alpha_deg}})
               : alpha_min \in {SeqMin(slot.alpha[1])}, alpha_max \in {SeqMax(slot.alpha[1])}})

\* set_polar_data leaving the slot alone when handed an empty alpha array
set_polar_data_keep(slot, p) ==
    IF Len(p.alpha) = 0 THEN [status |-> "ok", err |-> "", slot |-> slot]
    ELSE IF Len(p.alpha) # Len(p.cl) \/ Len(p.alpha) # Len(p.cd)
    THEN [status |-> "ValueError", err |-> "length_mismatch", slot |-> slot]
    ELSE [status |-> "ok", err |-> "", slot |-> Stored(p)]

\* set_polar_data storing whatever non-empty arrays it is handed
set_polar_data_unchecked(slot, p) ==
    IF Len(p.alpha) = 0 THEN [status |-> "ok", err |-> "", slot |-> NotLoaded]
    ELSE [status |-> "ok", err |-> "", slot |-> Stored(p)]

\* set_polar_data(alpha_deg, cl, cd): the outcome and the slot afterwards
set_polar_data(slot, p) ==
    IF Len(p.alpha) = 0 THEN [status |-> "ok", err |-> "", slot |-> NotLoaded]
    ELSE IF Len(p.alpha) # Len(p.cl) \/ Len(p.alpha) # Len(p.cd)
    THEN [status |-> "ValueError", err |-> "length_mismatch", slot |-> slot]
    ELSE [status |-> "ok", err |-> "", slot |-> Stored(p)]

\* _reset_polar_data()
reset_polar_data(slot) == NotLoaded

\* text as the sequence of its characters
Blank == " "

RECURSIVE LStrip(_)
LStrip(s) == IF Len(s) > 0 /\ s[1] = Blank THEN LStrip(Tail(s)) ELSE s

RECURSIVE RStrip(_)
RStrip(s) ==
    IF Len(s) > 0 /\ s[Len(s)] = Blank THEN RStrip(SubSeq(s, 1, Len(s) - 1)) ELSE s

\* str.strip()
Strip(s) == RStrip(LStrip(s))

LowerChar(c) ==
    CASE c = "A" -> "a" [] c = "C" -> "c" [] c = "D" -> "d" [] c = "E" -> "e"
      [] c = "G" -> "g" [] c = "H" -> "h" [] c = "L" -> "l" [] c = "P" -> "p"
      [] OTHER -> c

\* str.lower()
Lower(s) == Seq1([i \in 1..Len(s) |-> LowerChar(s[i])], Len(s))

Col_alpha_deg == <<"a", "l", "p", "h", "a", "_", "d", "e", "g">>

Col_cl == <<"c", "l">>

Col_cd == <<"c", "d">>

required_cols == <<Col_alpha_deg, Col_cl, Col_cd>>

\* list.index: the first position of x in s
IndexOf(s, x) == CHOOSE i \in 1..Len(s) : s[i] = x /\ \A j \in 1..(i - 1) : s[j] # x

\* float(v.strip()) on the cells that occur in the files
ParseFloat(cell) ==
    CASE cell = "1" -> Return(FromInt(1))
      [] cell = "2" -> Return(FromInt(2))
      [] cell = "3" -> Return(FromInt(3))
      [] cell = "5" -> Return(FromInt(5))
      [] cell = "7" -> Return(FromInt(7))
      [] cell = " 2 " -> Return(FromInt(2))
      [] cell = "nan" -> Return(NaN)
      [] OTHER -> Raise("ValueError", "could_not_convert")

\* the lines of the file that are not empty after strip()
DataLines(rows) == SelectSeq(rows, LAMBDA row : Len(row) > 0)

\* [float(v.strip()) for v in line.split(",")] for one line
ParseLine(row) == Seq1([i \in 1..Len(row) |-> ParseFloat(row[i])], Len(row))

Column(data, idx) == Seq1([i \in 1..Len(data) |-> data[i][idx].value], Len(data))

\* the rows in which none of the three columns is NaN
ValidMask(alpha, cl, cd) ==
    {i \in 1..Len(alpha) : ~(IsNaN(alpha[i]) \/ IsNaN(cl[i]) \/ IsNaN(cd[i]))}

RECURSIVE Masked(_, _, _)
Masked(s, mask, i) ==
    IF i > Len(s) THEN <<>>
    ELSE (IF i \in mask THEN <<s[i]>> ELSE <<>>) \o Masked(s, mask, i + 1)

\* a failed load that clears the slot on its way out
LoadFailed_clearing(kind, what, slot) ==
    [status |-> kind, err |-> what, value |-> [alpha |-> <<>>, cl |-> <<>>, cd |-> <<>>],
     slot |-> NotLoaded]

LoadFailed(kind, what, slot) ==
    [status |-> kind, err |-> what, value |-> [alpha |-> <<>>, cl |-> <<>>, cd |-> <<>>],
     slot |-> slot]

\* lines 73-79 of load_polar_csv: the rows left by the mask are stored in the
\* slot and returned; the angles of the model are integers
LoadColumns(slot, alpha, cl, cd) ==
    Pick({IF mask = {} THEN LoadFailed("ValueError", "no_valid_data", slot)
          ELSE Pick({Pick({IF r.status # "ok" THEN LoadFailed(r.status, r.err, r.slot)
                           ELSE [status |-> "ok", err |-> "", value |-> p, slot |-> r.slot]
                           : r \in {set_polar_data(slot, p)}})
                     : p \in {[alpha |-> Seq1([i \in 1..Cardinality(mask) |->
                                                 Masked(alpha, mask, 1)[i][1]],
                                             Cardinality(mask)),
                               cl |-> Masked(cl, mask, 1),
                               cd |-> Masked(cd, mask, 1)]}})
          : mask \in {ValidMask(alpha, cl, cd)}})

\* lines 52-71 of load_polar_csv on the parsed data lines.  A line that does
\* not parse raises ValueError out of the read loop.  Lines of different
\* lengths make np.array raise ValueError, or build an array whose column
\* indexing raises IndexError, which line 84 turns into ValueError; a column
\* index beyond a line's length raises IndexError likewise.
LoadRows(slot, data, alpha_idx, cl_idx, cd_idx) ==
    IF \E i \in 1..Len(data) : \E j \in 1..Len(data[i]) : data[i][j].status # "ok"
    THEN LoadFailed("ValueError", "could_not_convert", slot)
    ELSE IF Len(data) = 0 THEN LoadFailed("ValueError", "no_data_rows", slot)
    ELSE IF \E i \in 1..Len(data) : Len(data[i]) # Len(data[1])
    THEN LoadFailed("ValueError", "ragged_rows", slot)
    ELSE IF \E idx \in {alpha_idx, cl_idx, cd_idx} : idx > Len(data[1])
    THEN LoadFailed("ValueError", "error_reading", slot)
    ELSE LoadColumns(slot, Column(data, alpha_idx), Column(data, cl_idx),
                     Column(data, cd_idx))

\* load_polar_csv(path): the outcome, the returned arrays and the slot
\* afterwards.  A file is [exists, header, rows]: the cells of the header
\* line and of every further line, as split(",") yields them
load_polar_csv(slot, file) ==
    IF ~file.exists THEN LoadFailed("FileNotFoundError", "not_found", slot)
    ELSE Pick({IF \E k \in 1..Len(required_cols) :
                      \A i \in 1..Len(headers) : headers[i] # required_cols[k]
               THEN LoadFailed("ValueError", "missing_column", slot)
               ELSE Pick({LoadRows(slot, data, IndexOf(headers, Col_alpha_deg),
                                   IndexOf(headers, Col_cl), IndexOf(headers, Col_cd))
                          : data \in {Pick({Seq1([i \in 1..Len(lines) |-> ParseLine(lines[i])],
                                                 Len(lines))
                                            : lines \in {DataLines(file.rows)}})}})
               : headers \in {Seq1([i \in 1..Len(file.header) |->
                                       Lower(Strip(file.header[i]))], Len(file.header))}})

(* ----------------------- calls on the current-polar slot --------------- *)
NoPolar == [alpha |-> <<>>, cl |-> <<>>, cd |-> <<>>]

AbsentFile == [exists |-> FALSE, header |-> <<>>, rows |-> <<>>]

H_plain == <<Col_alpha_deg, Col_cl, Col_cd>>

\* the columns reordered, in other case, padded, with a fourth column
H_mixed ==
    <<<<" ", "C", "D", " ">>, <<"A", "l", "p", "h", "a", "_", "D", "e", "g">>,
      <<"C", "L">>, <<"n", "o", "t", "e">>>>

\* no alpha_deg and no cd column
H_short == <<<<"a", "l", "p", "h", "a">>, Col_cl>>

\* the lines whose i-th cell is one of cells[i]
RowsOver(cells) ==
    {r \in [1..Len(cells) -> UNION {cells[i] : i \in 1..Len(cells)}] :
        \A i \in 1..Len(cells) : r[i] \in cells[i]}

PlainRows == RowsOver(<<{"1", " 2 ", "nan", "x"}, {"3", "nan", "x"}, {"5", "nan", "x"}>>)

MixedRows == RowsOver(<<{"5", "nan"}, {"1", "2"}, {"3"}, {"7", "nan", "x"}>>)

RowCounts == {0, 1, 2}

FilesOf(header, rows, counts) ==
    {[exists |-> TRUE, header |-> header, rows |-> rs] :
        rs \in UNION {[1..n -> rows] : n \in counts}}

\* lines of different lengths, an empty line between two rows, a line
\* without the cd cell, a line without the cell of the fourth column
OddFiles ==
    {[exists |-> TRUE, header |-> H_plain, rows |-> <<<<"1", "3", "5">>, <<"2", "3">>>>],
     [exists |-> TRUE, header |-> H_plain,
      rows |-> <<<<"1", "3", "5">>, <<>>, <<"2", "3", "5">>>>],
     [exists |-> TRUE, header |-> H_plain, rows |-> <<<<"1", "3">>>>],
     [exists |-> TRUE, header |-> H_mixed, rows |-> <<<<"5", "1", "3">>>>]}

FileSet ==
    {AbsentFile} \cup FilesOf(H_plain, PlainRows, RowCounts)
        \cup FilesOf(H_mixed, MixedRows, RowCounts)
        \cup FilesOf(H_short, {<<"1", "3">>}, {0, 1})
        \cup OddFiles

\* the files of the runs that mix loads with sets: absent, two good rows,
\* a NaN row only, a column missing
SlotFiles ==
    {AbsentFile,
     [exists |-> TRUE, header |-> H_plain, rows |-> <<<<"1", "3", "5">>, <<"2", "3", "5">>>>],
     [exists |-> TRUE, header |-> H_plain, rows |-> <<<<"nan", "3", "5">>>>],
     [exists |-> TRUE, header |-> H_plain, rows |-> <<<<"1", "3", "5">>, <<"x", "3", "5">>>>],
     [exists |-> TRUE, header |-> H_short, rows |-> <<<<"1", "3">>>>]}

SlotClValues == {0, 1}

SlotCdValues == {1, 2}

\* arguments of set_polar_data: polars with alpha strictly or non-strictly
\* increasing, and arrays of different lengths
SlotArgs ==
    UNION {{[alpha |-> a, cl |-> l, cd |-> d] :
                a \in RepeatingAlphaSeqs(n), l \in CoefSeqs(n, SlotClValues),
                d \in CoefSeqs(n, SlotCdValues)}
           : n \in 0..MaxLen}
    \cup UNION {{[alpha |-> a, cl |-> <<>>, cd |-> [i \in 1..n |-> One]],
                 [alpha |-> a, cl |-> [i \in 1..n |-> One], cd |-> <<>>]}
                : a \in UNION {RepeatingAlphaSeqs(n) : n \in 1..MaxLen}, n \in 1..MaxLen}
    \cup {[alpha |-> <<>>, cl |-> <<One>>, cd |-> <<>>]}

SlotCall(op, alpha_deg, arg, r) ==
    [op |-> op, fpf |-> alpha_deg, arg |-> arg, status |-> r.status, err |-> r.err,
     value |-> r.value, warnings |-> r.warnings]

Done0(r) == [status |-> r.status, err |-> r.err, value |-> <<>>, warnings |-> <<>>]

\* the history after operation op wrote data into the slot
Wrote(op, data) == [op |-> op, prev |-> written.op, data |-> data]

InitSlot ==
    /\ config = DefaultConfig
    /\ polar = NoPolar
    /\ ret = NoCall
    /\ loaded = NotLoaded
    /\ written = NeverWritten
    /\ flow = None

\* set_polar_data(alpha_deg, cl, cd)
SetPolarData ==
    /\ Idle
    /\ \E p \in SlotArgs :
          \E r \in {set_polar_data(loaded, p)} :
              /\ loaded' = r.slot
              /\ ret' = SlotCall("set_polar_data", 0, p, Done0(r))
              /\ written' = IF Len(p.alpha) = 0 THEN Wrote("set_empty", NoPolar)
                            ELSE IF r.status = "ok" THEN Wrote("set", p)
                            ELSE written
    /\ UNCHANGED <<config, polar, flow>>

\* _reset_polar_data()
ResetPolarData ==
    /\ Idle
    /\ loaded' = reset_polar_data(loaded)
    /\ ret' = SlotCall("reset_polar_data", 0, NoPolar,
                       [status |-> "ok", err |-> "", value |-> <<>>, warnings |-> <<>>])
    /\ written' = Wrote("reset", NoPolar)
    /\ UNCHANGED <<config, polar, flow>>

\* interp_cl_cd(alpha_deg)
InterpClCd ==
    /\ Idle
    /\ \E a \in FpfAlphas :
          \E r \in {interp_cl_cd(loaded, a)} :
              ret' = SlotCall("interp_cl_cd", a, NoPolar, r)
    /\ UNCHANGED <<config, polar, loaded, written, flow>>

\* load_polar_csv(path) for a path to one of the files
LoadFrom(files) ==
    \E f \in files :
        \E r \in {load_polar_csv(loaded, f)} :
            /\ loaded' = r.slot
            /\ ret' = SlotCall("load_polar_csv", 0, f,
                               [status |-> r.status, err |-> r.err, value |-> r.value,
                                warnings |-> <<>>])
            /\ written' = IF r.status = "ok" THEN Wrote("load", r.value) ELSE written

LoadSlotFile ==
    /\ Idle
    /\ LoadFrom(SlotFiles)
    /\ UNCHANGED <<config, polar, flow>>

LoadPolarCsv ==
    /\ Idle
    /\ LoadFrom(FileSet)
    /\ UNCHANGED <<config, polar, flow>>

NextSlot ==
    \/ Done
    \/ SetPolarData
    \/ ResetPolarData
    \/ InterpClCd
    \/ LoadSlotFile

SpecSlot == InitSlot /\ [][NextSlot]_vars

NextLoad ==
    \/ Done
    \/ LoadPolarCsv
    \/ ResetPolarData

SpecLoad == InitSlot /\ [][NextLoad]_vars

(* ------------------------------- claims -------------------------------- *)
NonEmpty(p) == Len(p.alpha) > 0

InRange(a, p) == NonEmpty(p) /\ p.alpha[1] <= a /\ a <= p.alpha[Len(p.alpha)]

Subsonic(m) == FLeq(Zero, m) /\ FLt(m, One)

AllCdPositive(p) == \A i \in 1..Len(p.cd) : FLt(Zero, p.cd[i])

Compared == ret.op = "compare_phase" /\ ret.has_fpf

Corrected == apply_compressibility_to_polar(polar, ret.mach, config).polar

\* C1: compare_phase with vpf_target = min_cd, on a non-empty polar, a
\* subsonic phase and an fpf_alpha inside the alpha range, returns a result
\* with vpf_cd <= fpf_cd and delta_cd <= 0, both CDs read off the phase's
\* compressibility-corrected polar.
C1_MinCdNotWorse ==
    (Compared /\ ret.target = "min_cd" /\ Subsonic(ret.mach) /\ InRange(ret.fpf, polar))
    => /\ ret.status = "ok"
       /\ FLeq(ret.value.vpf_cd, ret.value.fpf_cd)
       /\ FLeq(ret.value.delta_cd, Zero)
       /\ ret.value.fpf_cd = Interp(ret.fpf, Corrected.alpha, Corrected.cd)
       /\ ret.value.vpf_cd = Interp(ret.value.vpf_alpha, Corrected.alpha, Corrected.cd)

\* a corrected polar on which the FPF angle, between two rows, costs strictly
\* more drag than the VPF angle
C1_Witness ==
    /\ Compared /\ ret.target = "min_cd" /\ ret.status = "ok"
    /\ config.use_compressibility /\ ret.mach = <<4, 5>>
    /\ InRange(ret.fpf, polar) /\ \A i \in 1..Len(polar.alpha) : polar.alpha[i] # ret.fpf
    /\ FLt(ret.value.vpf_cd, ret.value.fpf_cd)

\* C2: compare_phase with vpf_target = max_ld, on a polar with all CD > 0, a
\* subsonic phase and an fpf_alpha inside the alpha range, returns
\* vpf_ld >= fpf_ld and ld_improvement_pct >= 0, the FPF L/D being the
\* interpolated CL over the interpolated CD.
C2_MaxLdNotWorse ==
    (Compared /\ ret.target = "max_ld" /\ Subsonic(ret.mach) /\ InRange(ret.fpf, polar)
        /\ AllCdPositive(polar))
    => /\ ret.status = "ok"
       /\ FLeq(ret.value.fpf_ld, ret.value.vpf_ld)
       /\ FLeq(Zero, ret.value.ld_improvement_pct)
       /\ ret.value.fpf_ld = FDiv(Interp(ret.fpf, Corrected.alpha, Corrected.cl),
                                  Interp(ret.fpf, Corrected.alpha, Corrected.cd))

\* an FPF angle between two rows of different L/D, strictly worse than VPF
C2_Witness ==
    /\ Compared /\ ret.target = "max_ld" /\ ret.status = "ok"
    /\ config.use_compressibility /\ ret.mach = <<3, 5>>
    /\ InRange(ret.fpf, polar) /\ \A i \in 1..Len(polar.alpha) : polar.alpha[i] # ret.fpf
    /\ FLt(Zero, ret.value.fpf_ld)
    /\ FLt(ret.value.fpf_ld, ret.value.vpf_ld)
    /\ FLt(Zero, ret.value.ld_improvement_pct)

Batch == ret.op = "compute_all"

\* the phase does not raise during its own processing
PhaseOk(ph) == compute_phase_results(polar, ph, 0, config).status = "ok"

Failing == {i \in 1..Len(ret.phases) : ~PhaseOk(ret.phases[i])}

Reported == [k \in 1..Len(ret.value) |-> [name |-> ret.value[k].phase, mach |-> ret.value[k].mach]]

\* C3: in compute_all_phase_results, whichever single phase raises during its
\* processing, every other phase is still processed and its result returned,
\* in phase-list order.
C3_OneFailureNeverAborts ==
    (Batch /\ Len(ret.phases) > 1 /\ Cardinality(Failing) = 1)
    => /\ ret.status = "ok"
       /\ Reported = SelectSeq(ret.phases, PhaseOk)

Errors == {k \in 1..Len(ret.log) : ret.log[k].tag = "ERROR"}

\* C4 as stated: the data returned by a batch accounts for every input
\* phase, the failed ones included.
C4_FailuresReturned ==
    (Batch /\ ret.status = "ok") => Len(ret.value) = Len(ret.phases)

\* C4, amended: a batch that completes returns the results of exactly the
\* phases that did not fail, in phase-list order, and nothing for the failed
\* ones; the failures are only printed, one line per failed phase, so that
\* the returned results plus the printed failures account for every phase.
C4_FailuresOnlyPrinted ==
    (Batch /\ ret.status = "ok")
    => /\ Reported = SelectSeq(ret.phases, PhaseOk)
       /\ {ret.log[k].phase : k \in Errors} = Failing
       /\ Len(ret.value) + Cardinality(Errors) = Len(ret.phases)
       /\ Len(ret.log) = Len(ret.phases)

\* a completed batch in which a phase failed and a later one succeeded
C4_Witness ==
    /\ Batch /\ ret.status = "ok"
    /\ Len(ret.phases) = 2 /\ Failing = {1}
    /\ Len(ret.value) = 1

Applied == ret.op = "apply"

\* C5: with use_compressibility = false, apply_compressibility_to_polar
\* returns the input polar unchanged for every Mach, sonic and supersonic
\* included, raises nothing and warns of nothing.
C5_SwitchOffIsIdentity ==
    (Applied /\ ~config.use_compressibility)
    => /\ ret.status = "ok"
       /\ ret.value = polar
       /\ ret.warnings = {}

\* the switch is off and the polar is asked for at Mach 1
C5_Witness ==
    /\ Applied /\ ~config.use_compressibility
    /\ ret.mach = One /\ NonEmpty(polar)
    /\ ret.status = "ok"

\* C6: beta raises the supersonic error for every Mach >= 1, Mach 1 itself
\* included; below 1 it returns the non-negative value whose square is
\* 1 - Mach^2, strictly smaller than its value at any smaller Mach, and 1 at
\* Mach 0.
C6_Beta ==
    ret.op = "beta"
    => IF FLeq(One, ret.mach)
       THEN ret.status = "ValueError" /\ ret.err = "supersonic"
       ELSE /\ ret.status = "ok"
            /\ FLeq(Zero, ret.value)
            /\ FMul(ret.value, ret.value) = FSub(One, FMul(ret.mach, ret.mach))
            /\ \A m \in MachSet :
                  (FLeq(Zero, m) /\ FLt(m, ret.mach)) => FLt(ret.value, beta(m).value)
            /\ ret.mach = Zero => ret.value = One

\* beta at Mach 0.8
C6_Witness ==
    /\ ret.op = "beta" /\ ret.mach = <<4, 5>>
    /\ ret.status = "ok" /\ ret.value = <<3, 5>>

Uncapped == [config EXCEPT !.mach_max_valid = One]

\* C7: with compressibility on and mach_max_valid < Mach < 1, the correction
\* of a non-empty polar warns about the validity ceiling, does not fail, and
\* returns the CL and CD it returns under a configuration whose ceiling the
\* Mach does not exceed.
C7_CeilingOnlyWarns ==
    (Applied /\ config.use_compressibility /\ NonEmpty(polar)
        /\ FLt(config.mach_max_valid, ret.mach) /\ FLt(ret.mach, One))
    => /\ ret.status = "ok"
       /\ "mach_validity" \in ret.warnings
       /\ \E other \in {apply_compressibility_to_polar(polar, ret.mach, Uncapped)} :
          /\ "mach_validity" \notin other.warnings
          /\ ret.value.cl = other.polar.cl
          /\ ret.value.cd = other.polar.cd

\* Mach 0.8 against the default ceiling 0.7, on a polar the correction changes
C7_Witness ==
    /\ Applied /\ config = DefaultConfig /\ ret.mach = <<4, 5>>
    /\ ret.status = "ok" /\ "mach_validity" \in ret.warnings
    /\ ret.value.cd # polar.cd

OutOfRange == NonEmpty(polar) /\ ~InRange(ret.fpf, polar)

Clamp(a, p) == IF a < p.alpha[1] THEN p.alpha[1] ELSE p.alpha[Len(p.alpha)]

\* the correction and the VPF optimum of the phase succeed
PhaseComputable ==
    /\ Subsonic(ret.mach)
    /\ ret.target = "max_ld" => AllCdPositive(polar)

\* C8 as stated: a fixed FPF angle outside the alpha range of the phase's
\* corrected polar is clamped to the nearest boundary, a warning is emitted
\* and compare_phase still returns a result.
C8_ClampedResult ==
    (Compared /\ OutOfRange /\ PhaseComputable)
    => /\ ret.status = "ok"
       /\ ret.value.fpf_alpha = Clamp(ret.fpf, polar)
       /\ "fpf_clamped" \in ret.warnings

\* C8, amended: for a fixed FPF angle outside the alpha range of the phase's
\* corrected polar compare_phase raises ValueError and returns no result;
\* when the correction and the VPF optimum succeed the error is the
\* out-of-range error of compute_metrics_at_alpha; nothing is clamped and no
\* clamp warning is emitted.
C8_OutOfRangeRaises ==
    (Compared /\ OutOfRange)
    => /\ ret.status = "ValueError"
       /\ PhaseComputable => ret.err = "out_of_range"
       /\ "fpf_clamped" \notin ret.warnings

\* an angle one step above the range, on a phase that is otherwise computable
C8_Witness ==
    /\ Compared /\ OutOfRange /\ PhaseComputable
    /\ ret.fpf > polar.alpha[Len(polar.alpha)]
    /\ Len(polar.alpha) = 2
    /\ ret.status = "ValueError" /\ ret.err = "out_of_range"

\* alpha_0 + k_mach * (mach - mach_ref), alpha_0 = 4.0, mach_ref = 0.5, k_mach = 2.0
AlphaLaw(m) == FAdd(<<4, 1>>, FMul(<<2, 1>>, FSub(m, <<1, 2>>)))

\* C9: alpha_fpf called with only a flight phase returns
\* 4.0 + 2.0 * (mach - 0.5), and compare_phase called without an explicit FPF
\* angle reports that value as fpf_alpha.
C9_ParametricLaw ==
    /\ (ret.op = "alpha_fpf" /\ ret.fpf = 1)
       => ret.status = "ok" /\ FromInt(ret.value) = AlphaLaw(ret.mach)
    /\ (ret.op = "compare_phase" /\ ~ret.has_fpf)
       => ret.status = "ok" /\ FromInt(ret.value.fpf_alpha) = AlphaLaw(ret.mach)

HasCruise == \E i \in 1..Len(ret.phases) : ret.phases[i].name = "cruise"

FirstCruise ==
    ret.phases[CHOOSE i \in 1..Len(ret.phases) :
                   /\ ret.phases[i].name = "cruise"
                   /\ \A j \in 1..(i - 1) : ret.phases[j].name # "cruise"]

\* C10: a batch that completes has computed one FPF angle, the minimum-CD
\* angle of the cruise phase's compressibility-corrected polar, and every
\* returned per-phase result carries that angle as its FPF angle, wherever
\* the cruise phase stands in the list and whether or not earlier phases
\* failed.
C10_OneFixedAngle ==
    (Batch /\ ret.status = "ok" /\ HasCruise)
    => \E c \in {apply_compressibility_to_polar(polar, FirstCruise.mach, config)} :
       /\ c.status = "ok"
       /\ ret.fpf = find_alpha_min_cd(c.polar).value
       /\ \A k \in 1..Len(ret.value) : ret.value[k].alpha_fpf = ret.fpf

\* the cruise phase comes second, after a phase that failed, and the
\* correction moves the minimum-CD angle away from the base polar's
C10_Witness ==
    /\ Batch /\ ret.status = "ok"
    /\ Len(ret.phases) = 2 /\ ret.phases[2].name = "cruise" /\ ret.phases[1].name # "cruise"
    /\ Failing = {1}
    /\ Len(ret.value) = 1 /\ ret.value[1].alpha_fpf = ret.fpf
    /\ ret.fpf # find_alpha_min_cd(polar).value

\* the ratio and the percentage of a pair (fpf, vpf) follow the guarded rule;
\* change is the numerator of the percentage
Guarded(ratio, pct, fpf, vpf, change) ==
    IF FLt(Zero, fpf)
    THEN ratio = FDiv(vpf, fpf) /\ pct = FMul(FDiv(change, fpf), Hundred)
    ELSE ratio = Inf /\ pct = Zero

\* C11: in every result of compare_phase delta_cd = vpf_cd - fpf_cd and
\* delta_ld = vpf_ld - fpf_ld; cd_ratio = vpf_cd / fpf_cd and
\* cd_reduction_pct = (fpf_cd - vpf_cd) / fpf_cd * 100 when fpf_cd > 0, and
\* +infinity and 0.0 otherwise; ld_ratio and ld_improvement_pct follow the
\* same rule with fpf_ld as denominator and vpf_ld - fpf_ld as numerator.
C11_GuardedRatios ==
    (Compared /\ ret.status = "ok")
    => \E v \in {ret.value} :
           /\ v.delta_cd = FSub(v.vpf_cd, v.fpf_cd)
           /\ v.delta_ld = FSub(v.vpf_ld, v.fpf_ld)
           /\ Guarded(v.cd_ratio, v.cd_reduction_pct, v.fpf_cd, v.vpf_cd,
                      FSub(v.fpf_cd, v.vpf_cd))
           /\ Guarded(v.ld_ratio, v.ld_improvement_pct, v.fpf_ld, v.vpf_ld,
                      FSub(v.vpf_ld, v.fpf_ld))

\* a result whose FPF drag is zero and whose FPF L/D is -infinity: both
\* denominators are non-positive and both guards are taken
C11_Witness ==
    /\ Compared /\ ret.status = "ok"
    /\ ret.value.fpf_cd = Zero /\ ret.value.cd_ratio = Inf
    /\ ret.value.cd_reduction_pct = Zero
    /\ ret.value.fpf_ld = NegInf /\ ret.value.ld_ratio = Inf
    /\ ret.value.ld_improvement_pct = Zero

Measured == ret.op = "compute_metrics_at_alpha"

\* C12: compute_metrics_at_alpha, for an angle inside the range of a
\* non-empty polar, returns ld = cl / cd when the interpolated cd > 0, and
\* when the interpolated cd <= 0 returns +infinity if the interpolated cl > 0
\* and -infinity otherwise (cl = 0 included); it does not raise and ld is
\* never NaN.
C12_LdRule ==
    (Measured /\ InRange(ret.fpf, polar))
    => /\ ret.status = "ok"
       /\ \E v \in {ret.value} :
              /\ v.cl = Interp(ret.fpf, polar.alpha, polar.cl)
              /\ v.cd = Interp(ret.fpf, polar.alpha, polar.cd)
              /\ ~IsNaN(v.ld)
              /\ v.ld = IF FLt(Zero, v.cd) THEN FDiv(v.cl, v.cd)
                        ELSE IF FLt(Zero, v.cl) THEN Inf ELSE NegInf

\* between two rows the drag interpolates to a negative value and the lift to 0
C12_Witness ==
    /\ Measured /\ ret.status = "ok"
    /\ \A i \in 1..Len(polar.alpha) : polar.alpha[i] # ret.fpf
    /\ FLt(ret.value.cd, Zero) /\ ret.value.cl = Zero
    /\ ret.value.ld = NegInf

Strict == ret.op \in {"compute_metrics_at_alpha", "interpolate_polar"}

Outside(a, p) == a < SeqMin(p.alpha) \/ a > SeqMax(p.alpha)

\* C13: on a non-empty polar, interpolate_polar and compute_metrics_at_alpha
\* raise the out-of-range error exactly when alpha < min(alpha array) or
\* alpha > max(alpha array); an alpha equal to either boundary succeeds, and
\* an out-of-range alpha never yields a value.
C13_StrictLookups ==
    (Strict /\ NonEmpty(polar))
    => /\ (ret.status = "ValueError" /\ ret.err = "out_of_range") <=> Outside(ret.fpf, polar)
       /\ ~Outside(ret.fpf, polar) => ret.status = "ok"
       /\ (ret.fpf = SeqMin(polar.alpha) \/ ret.fpf = SeqMax(polar.alpha)) => ret.status = "ok"
       /\ (ret.op = "interpolate_polar" /\ ret.status = "ok")
              => ret.value = Interp(ret.fpf, polar.alpha, polar.cl)

\* interpolate_polar asked for the largest angle of a two-row polar
C13_Witness ==
    /\ ret.op = "interpolate_polar" /\ Len(polar.alpha) = 2
    /\ polar.alpha[1] < polar.alpha[2] /\ ret.fpf = polar.alpha[2]
    /\ ret.status = "ok" /\ ret.value = polar.cl[2]

\* C14: find_alpha_min_cd (aero/metrics.py and aero/optima.py alike) raises
\* the empty-data error on an empty polar; on a non-empty polar it returns
\* alpha[i] for the lowest index i at which CD attains its minimum:
\* CD[i] <= CD[j] for all j and CD[i] < CD[j] for all j < i.
C14_FirstMinimum ==
    ret.op = "find_alpha_min_cd"
    => IF Len(polar.alpha) = 0
       THEN ret.status = "ValueError" /\ ret.err = "empty"
       ELSE /\ ret.status = "ok"
            /\ \E i \in 1..Len(polar.alpha) :
                   /\ \A j \in 1..Len(polar.cd) : FLeq(polar.cd[i], polar.cd[j])
                   /\ \A j \in 1..(i - 1) : FLt(polar.cd[i], polar.cd[j])
                   /\ ret.value = polar.alpha[i]

\* two rows of equal CD at different angles: the first is returned
C14_Witness ==
    /\ ret.op = "find_alpha_min_cd" /\ ret.status = "ok"
    /\ Len(polar.alpha) = 2 /\ polar.alpha[1] # polar.alpha[2]
    /\ polar.cd[1] = polar.cd[2]
    /\ ret.value = polar.alpha[1]

LD(p, i) == FDiv(p.cl[i], p.cd[i])

\* C15: find_alpha_max_ld raises the empty-data error on an empty polar,
\* raises the invalid-data error whenever any CD entry is <= 0, wherever that
\* entry is, and otherwise returns alpha[i] for the lowest index i maximising
\* CL[i] / CD[i].
C15_FirstMaximum ==
    ret.op = "find_alpha_max_ld"
    => IF Len(polar.alpha) = 0
       THEN ret.status = "ValueError" /\ ret.err = "empty"
       ELSE IF ~AllCdPositive(polar)
       THEN ret.status = "ValueError" /\ ret.err = "invalid_cd"
       ELSE /\ ret.status = "ok"
            /\ \E i \in 1..Len(polar.alpha) :
                   /\ \A j \in 1..Len(polar.alpha) : FLeq(LD(polar, j), LD(polar, i))
                   /\ \A j \in 1..(i - 1) : FLt(LD(polar, j), LD(polar, i))
                   /\ ret.value = polar.alpha[i]

\* two rows of equal, positive L/D at different angles: the first is returned
C15_Witness ==
    /\ ret.op = "find_alpha_max_ld" /\ ret.status = "ok"
    /\ Len(polar.alpha) = 2 /\ polar.alpha[1] # polar.alpha[2]
    /\ LD(polar, 1) = LD(polar, 2) /\ FLt(Zero, LD(polar, 1))
    /\ ret.value = polar.alpha[1]

Recorded(a, p) == \E i \in 1..Len(p.alpha) : p.alpha[i] = a

\* C18 as stated: for a polar with alpha strictly or non-strictly increasing
\* and every recorded row i, compute_metrics_at_alpha at alpha[i] returns
\* exactly cl[i] and cd[i].
C18_RoundTrip ==
    (Measured /\ Recorded(ret.fpf, polar))
    => /\ ret.status = "ok"
       /\ \A i \in 1..Len(polar.alpha) :
              polar.alpha[i] = ret.fpf
              => ret.value.cl = polar.cl[i] /\ ret.value.cd = polar.cd[i]

\* row i is the last row recorded at its angle
LastAt(p, i) == i = Len(p.alpha) \/ p.alpha[i + 1] > p.alpha[i]

\* C18, amended: compute_metrics_at_alpha at a recorded angle returns exactly
\* the cl and cd of the last row recorded at that angle; when alpha is
\* strictly increasing that is the one row of the angle, so the round trip is
\* exact for every row, and when an angle is repeated the earlier rows at
\* that angle are not returned.
C18_RoundTripLastRow ==
    (Measured /\ Recorded(ret.fpf, polar))
    => /\ ret.status = "ok"
       /\ \A i \in 1..Len(polar.alpha) :
              (polar.alpha[i] = ret.fpf /\ LastAt(polar, i))
              => ret.value.cl = polar.cl[i] /\ ret.value.cd = polar.cd[i]

\* two rows at the same angle with different CL: the second is returned
C18_Witness ==
    /\ Measured /\ ret.status = "ok"
    /\ Len(polar.alpha) = 2 /\ polar.alpha[1] = polar.alpha[2]
    /\ ret.fpf = polar.alpha[1]
    /\ polar.cl[1] # polar.cl[2]
    /\ ret.value.cl = polar.cl[2] /\ ret.value.cd = polar.cd[2]

Interpolated == ret.op = "interp_cl_cd"

\* no set or load has succeeded yet, or the slot was last changed by a reset
\* or by a set with an empty alpha array
SlotEmpty == written.op \in {"none", "reset", "set_empty"}

ClampInto(a, p) ==
    IF a < SeqMin(p.alpha) THEN SeqMin(p.alpha)
    ELSE IF a > SeqMax(p.alpha) THEN SeqMax(p.alpha)
    ELSE a

\* the clamped linear interpolation of polar p at angle a
InterpClamped(p, a) ==
    [cl |-> Interp(ClampInto(a, p), p.alpha, p.cl),
     cd |-> Interp(ClampInto(a, p), p.alpha, p.cd)]

\* C16: after any sequence of set_polar_data, load_polar_csv and reset
\* operations, interp_cl_cd fails with the not-loaded error exactly when no
\* set or load has succeeded yet or the most recent slot-changing operation
\* was a reset or a set with an empty alpha array; otherwise it interpolates
\* on the polar written by the most recent successful set or load, which is
\* the polar the slot holds.
C16_LastWriterWins ==
    /\ loaded = IF SlotEmpty THEN NotLoaded ELSE Stored(written.data)
    /\ Interpolated
       => IF SlotEmpty
          THEN ret.status = "RuntimeError" /\ ret.err = "not_loaded"
          ELSE ret.status = "ok" /\ ret.value = InterpClamped(written.data, ret.fpf)

\* a set after a load: the lookup answers from the polar that was set
C16_Witness ==
    /\ Interpolated /\ ret.status = "ok"
    /\ written.op = "set" /\ written.prev = "load"
    /\ Len(written.data.alpha) = 2
    /\ ret.value = InterpClamped(written.data, ret.fpf)

InSlot == [alpha |-> loaded.alpha[1], cl |-> loaded.cl[1], cd |-> loaded.cd[1]]

\* the value is row k of the stored polar, the last row recorded at angle a
RowAt(value, p, a) ==
    \E k \in 1..Len(p.alpha) :
        /\ p.alpha[k] = a /\ LastAt(p, k)
        /\ value = [cl |-> p.cl[k], cd |-> p.cd[k]]

\* C17: once a non-empty polar is in the current-polar slot interp_cl_cd
\* never raises; for alpha below the stored minimum (above the stored
\* maximum) it returns the CL and CD of the row at the minimum (maximum)
\* alpha and emits exactly one extrapolation warning; for alpha within the
\* stored range it emits no warning.
C17_ClampsAndWarns ==
    (Interpolated /\ loaded # NotLoaded)
    => /\ ret.status = "ok"
       /\ ret.fpf < SeqMin(InSlot.alpha)
          => RowAt(ret.value, InSlot, SeqMin(InSlot.alpha))
             /\ ret.warnings = <<"below_minimum">>
       /\ ret.fpf > SeqMax(InSlot.alpha)
          => RowAt(ret.value, InSlot, SeqMax(InSlot.alpha))
             /\ ret.warnings = <<"above_maximum">>
       /\ ~Outside(ret.fpf, InSlot) => ret.warnings = <<>>

\* an angle above the largest angle of a stored two-row polar
C17_Witness ==
    /\ Interpolated /\ loaded # NotLoaded /\ ret.status = "ok"
    /\ Len(InSlot.alpha) = 2 /\ InSlot.alpha[1] < InSlot.alpha[2]
    /\ ret.fpf > InSlot.alpha[2]
    /\ InSlot.cl[1] # InSlot.cl[2]
    /\ ret.value.cl = InSlot.cl[2]
    /\ ret.warnings = <<"above_maximum">>

Loading == ret.op = "load_polar_csv"

Headers(f) == [i \in 1..Len(f.header) |-> Lower(Strip(f.header[i]))]

HasColumns(f) ==
    \A k \in 1..Len(required_cols) : \E i \in 1..Len(f.header) : Headers(f)[i] = required_cols[k]

\* the cell is a number: it parses and is not NaN
Numeric(cell) == ParseFloat(cell).status = "ok" /\ ~IsNaN(ParseFloat(cell).value)

\* a data row whose alpha_deg, cl and cd cells are numbers
ValidRow(f, row) ==
    \A k \in 1..Len(required_cols) :
        /\ IndexOf(Headers(f), required_cols[k]) <= Len(row)
        /\ Numeric(row[IndexOf(Headers(f), required_cols[k])])

ValidRows(f) == SelectSeq(f.rows, LAMBDA row : ValidRow(f, row))

CellValue(f, row, col) == ParseFloat(row[IndexOf(Headers(f), col)]).value

\* the polar made of the valid rows of f, in file order
PolarOfValidRows(f) ==
    [alpha |-> [i \in 1..Len(ValidRows(f)) |-> CellValue(f, ValidRows(f)[i], Col_alpha_deg)[1]],
     cl |-> [i \in 1..Len(ValidRows(f)) |-> CellValue(f, ValidRows(f)[i], Col_cl)],
     cd |-> [i \in 1..Len(ValidRows(f)) |-> CellValue(f, ValidRows(f)[i], Col_cd)]]

\* C19: load_polar_csv drops every data row that contains an unparsable or
\* NaN value and returns the remaining rows in file order; the load fails
\* only when no valid row remains; values in extra columns never cause a
\* row or the load to be rejected.
C19_BadRowsDropped ==
    (Loading /\ ret.arg.exists /\ HasColumns(ret.arg))
    => IF Len(ValidRows(ret.arg)) = 0
       THEN ret.status = "ValueError"
       ELSE ret.status = "ok" /\ ret.value = PolarOfValidRows(ret.arg)

\* C20: load_polar_csv fails with the not-found error when the file is
\* absent, with the format error when one of alpha_deg, cl, cd is missing
\* from the header (matched case-insensitively, in any order) or when no
\* valid data row remains, and otherwise returns three sequences of equal
\* length > 0.
C20_LoadOutcomes ==
    Loading
    => IF ~ret.arg.exists
       THEN ret.status = "FileNotFoundError"
       ELSE IF ~HasColumns(ret.arg) THEN ret.status = "ValueError"
       ELSE IF Len(ValidRows(ret.arg)) = 0 THEN ret.status = "ValueError"
       ELSE /\ ret.status = "ok"
            /\ Len(ret.value.alpha) > 0
            /\ Len(ret.value.cl) = Len(ret.value.alpha)
            /\ Len(ret.value.cd) = Len(ret.value.alpha)

(* --------------------------------- C21 --------------------------------- *)
DragCalled == ret.op = "correct_cd_pg"

\* the subsonic Mach numbers from m upwards
MachsFrom(m) == {m2 \in DragMachs : FLeq(m, m2) /\ FLt(m2, One)}

\* x <= y for two results of one call form: floats, or arrays row by row
DragLeq(form, x, y) ==
    IF form \in {"arrays", "array"}
    THEN Len(x) = Len(y) /\ \A i \in 1..Len(x) : FLeq(x[i], y[i])
    ELSE FLeq(x, y)

\* the drag of the call recorded in ret, had it been made at Mach m
DragAt(m) == correct_cd_pg_form(ret.form, polar, ret.idx, m)

\* the rows of minimum |CL|
ZeroLiftRows(p) ==
    {i \in 1..Len(p.cl) : \A j \in 1..Len(p.cl) : FLeq(FAbs(p.cl[i]), FAbs(p.cl[j]))}

\* the first row of minimum |CL|, the row whose CD is taken for cd0
ZeroLiftRow(p) == CHOOSE i \in ZeroLiftRows(p) : \A j \in ZeroLiftRows(p) : i <= j

\* the drag that is scaled by 1/beta^2 is not negative: cd0 with two arrays,
\* every cd otherwise
BaseDragNonNegative ==
    IF ret.form = "arrays" THEN FLeq(Zero, polar.cd[ZeroLiftRow(polar)])
    ELSE IF ret.form = "array" THEN \A i \in 1..Len(polar.cd) : FLeq(Zero, polar.cd[i])
    ELSE FLeq(Zero, polar.cd[ret.idx])

\* C21 as stated: for fixed cd and cl the corrected drag is non-decreasing in
\* Mach: the result at M1 is <= the result at every M2 with M1 <= M2 < 1.
C21_DragGrowsWithMach ==
    (DragCalled /\ ret.status = "ok")
    => \A m2 \in MachsFrom(ret.mach) : DragLeq(ret.form, ret.value, DragAt(m2).value)

\* C21 amended: the corrected drag is non-decreasing in Mach over 0 <= M < 1
\* whenever the drag scaled by 1/beta^2 is not negative (cd0, the CD of the
\* first row of minimum |CL|, for two arrays; cd itself on the other paths).
C21_DragGrowsWithMachFromZeroUp ==
    (DragCalled /\ ret.status = "ok" /\ BaseDragNonNegative)
    => \A m2 \in MachsFrom(ret.mach) : DragLeq(ret.form, ret.value, DragAt(m2).value)

\* two arrays corrected at Mach 0.6 with cd0 > 0 and the other row's drag
\* below cd0, so that it is held at the floor: both rows are strictly below
\* their values at Mach 0.8
C21_Witness ==
    /\ DragCalled /\ ret.status = "ok" /\ ret.form = "arrays"
    /\ ret.mach = <<3, 5>>
    /\ Len(polar.cd) = 2
    /\ FLt(Zero, polar.cd[ZeroLiftRow(polar)])
    /\ \E i \in 1..2 : FLt(polar.cd[i], polar.cd[ZeroLiftRow(polar)])
    /\ \A i \in 1..2 : FLt(ret.value[i], DragAt(<<4, 5>>).value[i])

(* --------------------------------- C22 --------------------------------- *)
Held == flow[1]

\* C22: isa_atmosphere raises the negative-altitude ValueError exactly for
\* altitude_m < 0 and takes the troposphere branch exactly for 0 <= altitude_m
\* <= 11000; FlowState(...) never raises, whatever the altitude; and every
\* property of a FlowState with a negative altitude raises that ValueError.
C22_NegativeAltitudeRaises ==
    /\ ret.op = "isa_atmosphere"
       => /\ ret.status = "ValueError" <=> ret.arg < 0
          /\ ret.status = "ValueError" => ret.err = "negative_altitude"
          /\ ret.status # "ValueError"
             => /\ ret.status = "ok"
                /\ ret.value.layer = "troposphere" <=> ret.arg <= 11000
                /\ ret.value.layer = "stratosphere" <=> ret.arg > 11000
    /\ ret.op = "FlowState" => ret.status = "ok" /\ flow = Some(ret.arg)
    /\ (ret.op \in Properties /\ Held.altitude_m < 0)
       => ret.status = "ValueError" /\ ret.err = "negative_altitude"

\* q is read from a FlowState that was built with a negative altitude
C22_Witness ==
    /\ ret.op = "q"
    /\ flow # None /\ Held.altitude_m < 0
    /\ ret.arg = Held
    /\ ret.status = "ValueError"

(* --------------------------------- C23 --------------------------------- *)
SetCalled == ret.op = "set_polar_data"

Mismatched(p) == Len(p.alpha) # Len(p.cl) \/ Len(p.alpha) # Len(p.cd)

AllEmpty(p) == Len(p.alpha) = 0 /\ Len(p.cl) = 0 /\ Len(p.cd) = 0

\* the slot as the history says it was left by the last operation that changed it
SlotAsWritten == IF SlotEmpty THEN NotLoaded ELSE Stored(written.data)

C24_OneVariantOnEveryPath ==
    (DragCalled /\ ret.form = "arrays" /\ ret.status = "ok")
    => \A i \in 1..Len(polar.cd) :
          /\ ret.value[i] = correct_cd_pg_form("scalar_cl", polar, i, ret.mach).value
          /\ ret.value[i] = correct_cd_pg_form("scalar", polar, i, ret.mach).value
          /\ ret.value[i] = correct_cd_pg_form("array", polar, 0, ret.mach).value[i]

(* --------------------------------- C26 --------------------------------- *)
WaveDragWarned == "wave_drag" \in ret.warnings

\* C26 as stated: correct_cd_pg emits the wave-drag warning on every call
\* with mach > 0.6 and on no call with mach <= 0.6.
C26_WarnsAboveLimit ==
    DragCalled => (WaveDragWarned <=> FLt(<<6, 10>>, ret.mach))

\* C26 amended: correct_cd_pg emits the wave-drag warning exactly on the
\* calls with 0.6 < mach < 1 (none at 0.6), and the warning does not stop
\* the call; with mach >= 1 the call raises the supersonic error and emits
\* no warning.
C26_WarnsAboveLimitBelowSonic ==
    DragCalled
    => /\ WaveDragWarned <=> (FLt(<<6, 10>>, ret.mach) /\ FLt(ret.mach, One))
       /\ FLeq(One, ret.mach)
          => ret.status = "ValueError" /\ ret.err = "supersonic" /\ ret.warnings = {}
       /\ (WaveDragWarned /\ (ret.form = "arrays" => Len(polar.cl) > 0))
          => ret.status = "ok"

\* two arrays corrected at Mach 0.8: the warning is emitted and the corrected
\* drag returned
C26_Witness ==
    /\ DragCalled /\ ret.form = "arrays" /\ Len(polar.cd) = 2
    /\ ret.mach = <<4, 5>>
    /\ ret.warnings = {"wave_drag"}
    /\ ret.status = "ok" /\ Len(ret.value) = 2

(* --------------------------------- C27 --------------------------------- *)
\* the non-negative number whose square is 1 - m^2
PGFactor(m) ==
    CHOOSE b \in {One, <<4, 5>>, <<3, 5>>, <<12, 13>>, <<5, 13>>} :
        FMul(b, b) = FSub(One, FMul(m, m))

Cube(x) == FMul(FMul(x, x), x)

\* cd0/b^2 for the base polar p
DragFloor(p, b) == FDiv(p.cd[ZeroLiftRow(p)], FMul(b, b))

\* cd0/b^2 + (cd[i] - cd0)/b^3 for the base polar p
SplitDrag(p, b, i) ==
    FAdd(DragFloor(p, b), FDiv(FSub(p.cd[i], p.cd[ZeroLiftRow(p)]), Cube(b)))

MinCdAlpha(p) ==
    p.alpha[CHOOSE i \in 1..Len(p.cd) :
                /\ \A j \in 1..Len(p.cd) : FLeq(p.cd[i], p.cd[j])
                /\ \A j \in 1..(i - 1) : FLt(p.cd[i], p.cd[j])]

ComparedMinCd ==
    Compared /\ ret.target = "min_cd" /\ Subsonic(ret.mach) /\ ret.status = "ok"

\* C25: the correction does not move the minimum-drag angle: for
\* vpf_target = min_cd and a subsonic phase, the vpf_alpha of compare_phase
\* is find_alpha_min_cd of the base polar.
C25_MinCdAngleKept ==
    ComparedMinCd => ret.value.vpf_alpha = MinCdAlpha(polar)

(* --------------------------------- C28 --------------------------------- *)
\* the step is a call of load_polar_csv or set_polar_data that raised
FailedWrite ==
    /\ ret.op = "none"
    /\ ret'.op \in {"load_polar_csv", "set_polar_data"}
    /\ ret'.status # "ok"

\* C28: a failing operation leaves the current-polar slot unchanged: over a
\* load_polar_csv that fails (missing file, missing column, unparsable row,
\* zero valid rows) or a set_polar_data that raises on mismatched lengths,
\* the slot keeps its value and interp_cl_cd gives at every angle the result,
\* or the not-loaded error, it gave before the call.
C28_FailureKeepsSlot ==
    [][FailedWrite
       => /\ loaded' = loaded
          /\ \A a \in FpfAlphas : interp_cl_cd(loaded', a) = interp_cl_cd(loaded, a)]_vars

\* a load has just failed on an unparsable row while a polar set earlier is
\* in the slot
C28_Witness ==
    /\ ret.op = "load_polar_csv"
    /\ ret.status = "ValueError" /\ ret.err = "could_not_convert"
    /\ written.op = "set"
    /\ loaded = Stored(written.data)
    /\ interp_cl_cd(loaded, 0).status = "ok"

(* --------------------------------- C29 --------------------------------- *)
\* C29: with compressibility enabled, the correction at Mach 0, where beta
\* is 1, returns CL and CD equal element by element to the base polar's.
C29_MachZeroIsIdentity ==
    (Applied /\ config.use_compressibility /\ ret.mach = Zero /\ ret.status = "ok")
    => /\ ret.value.alpha = polar.alpha
       /\ ret.value.cl = polar.cl
       /\ ret.value.cd = polar.cd

(* --------------------------------- C30 --------------------------------- *)
\* the comparison in ret is the design point's own: its fpf_alpha is the
\* angle alpha_fpf derives from the same phase with the same target
AtDesignPoint ==
    /\ Compared
    /\ \E a \in {alpha_fpf(3, polar, ret.mach, ret.target, config)} :
          a.status = "ok" /\ ret.fpf = a.value

\* C30 as stated: at the design point the comparison has vpf_alpha =
\* fpf_alpha, delta_cd = 0, delta_ld = 0 and cd_reduction_pct = 0.
C30_DesignPointCoincides ==
    AtDesignPoint
    => /\ ret.status = "ok"
       /\ ret.value.vpf_alpha = ret.value.fpf_alpha
       /\ ret.value.delta_cd = Zero
       /\ ret.value.delta_ld = Zero
       /\ ret.value.cd_reduction_pct = Zero

\* C30 amended: at the design point vpf_alpha = fpf_alpha, the CD and L/D of
\* the two are equal, delta_cd = 0 and cd_reduction_pct = 0; delta_ld = 0
\* when the corrected CD at that angle is positive, and is NaN when it is
\* <= 0, where both L/D are the same infinity.
C30_DesignPointCoincidesFiniteLd ==
    AtDesignPoint
    => /\ ret.status = "ok"
       /\ ret.value.vpf_alpha = ret.value.fpf_alpha
       /\ ret.value.vpf_cd = ret.value.fpf_cd
       /\ ret.value.vpf_ld = ret.value.fpf_ld
       /\ ret.value.delta_cd = Zero
       /\ ret.value.cd_reduction_pct = Zero
       /\ IF FLt(Zero, ret.value.fpf_cd)
          THEN IsFinite(ret.value.fpf_ld) /\ ret.value.delta_ld = Zero
          ELSE ~IsFinite(ret.value.fpf_ld) /\ IsNaN(ret.value.delta_ld)

\* the design point of a two-row polar at Mach 0.8 for the target max_ld:
\* the optimum is the second angle and the L/D there is finite and positive
C30_Witness ==
    /\ AtDesignPoint /\ ret.target = "max_ld" /\ ret.mach = <<4, 5>>
    /\ config.use_compressibility
    /\ Len(polar.alpha) = 2 /\ ret.fpf = polar.alpha[2]
    /\ ret.status = "ok"
    /\ FLt(Zero, ret.value.fpf_ld) /\ IsFinite(ret.value.fpf_ld)
    /\ ret.value.delta_ld = Zero

====
